---- MODULE Spec2Model ----
(***************************************************************************)
(* A model of the CosmicBeats simulator core.                              *)
(*                                                                         *)
(* Part I   ManagerParallel: the step loop run_Sim, its worker pool, the   *)
(*          pause gate and the runtime API (pause_AtTime, resume) as it is *)
(*          called from a controller thread, and the nodes' Execute.       *)
(* Part II  LoraRadioDevice: send, receive and update_Timestep of the      *)
(*          radios of nodes that execute the steps of a run.               *)
(*                                                                         *)
(* Time is counted in ticks (datetime's microsecond is the unit of the     *)
(* source); a node's timestamp is a number of ticks.                       *)
(***************************************************************************)
EXTENDS Integers, Sequences, FiniteSets, TLC

(***************************************************************************)
(* Bounds and configuration of the checked instances.                      *)
(***************************************************************************)
\* number of nodes of the single topology
NumNodes == 2
\* numOfSimSteps, the N of the run
NumOfSteps == 3
\* largest numOfWorkers tried (1 is the serial loop)
MaxWorkers == 2
\* number of runtime API calls the controller thread makes
MaxApiCalls == 3
\* simtime.starttime, in ticks
SimStartTime == 4
\* simtime.delta, in ticks
DeltaTime == 2

\* number of nodes that carry a LoRa radio: node 1 is a satellite, the others
\* are ground nodes (ground stations, IoT devices)
NumRadios == 3
\* number of packets the upper layers hand to the radios in a run
MaxPackets == 2
\* a packet shorter than the MTU
SmallPacket == 51
\* payload bytes sent in one tick (time-on-air grows with the frame size)
BytesPerTick == 100
\* largest propagation delay of a link, in ticks
MaxProp == 1
\* the frames of the stronger radio arrive RssiStep dB above the others
RssiStep == 6
\* four symbol times, the time a receiver needs to lock on a frame, in ticks
LockTicks == 1
\* frames created in a run of the id minting
MaxFrames == 4
\* data units a MAC peer makes in a run
MaxData == 2
\* steps a MAC peer is followed for
MacSteps == 7
\* ModelMACiot: seconds to wait for an ack before retransmitting
RetransmitInterval == 4
\* ModelMACiot: largest backoff in seconds
BackoffInterval == 2
\* ModelMACgs: seconds without a packet after which the satellite is given up
GsTimeout == 2
\* satellites and ground nodes of the topology whose FOV index is built
NumSats == 2
NumGrounds == 2
\* worker processes of compute_FOVs (_numProcesses)
FovWorkers == 2
\* the latest time a pass may begin or end
MaxPassTime == 2

\* nodes the Orchestrator creates, and the longest model list drawn freely
NumOrchNodes == 2
MaxModels == 3

\* ModelPower: MIN_CAPACITY, the most the bank holds above it, the largest
\* energy of one transmission, the energy a step in sunlight adds, and the
\* steps the node is followed for
MinCharge == 2
MaxEps == 2
MaxTxEnergy == 3
SolarCharge == 1
NumPowerSteps == 2
MaxObjects == 5
MaxInfoValue == 2

\* ModelMACTTnC: seconds between beacons, and the largest jitter added
BeaconInterval == 2
BeaconBackoff == 2
\* LoraRadioDevice.get_MTU
LoraMTU == 255
\* the capture threshold in dB
CaptureThreshold == 6

RadioNodes == 1..NumRadios
SatNodes == {1}
GroundNodes == RadioNodes \ SatNodes
PacketSizes == {SmallPacket, LoraMTU, LoraMTU + 1}

Nodes == 1..NumNodes
Steps == 0..NumOfSteps
None == -1
SimEndTime == SimStartTime + NumOfSteps * DeltaTime

VARIABLES
    \* ---- ManagerParallel
    currentStep,        \* self.__currentStep
    timeStepToStop,     \* self.__timeStepToStop (None or a step)
    stoppingCondition,  \* threading.Event: "the run is paused"
    resumingCondition,  \* threading.Event: "the run may go on"
    numOfThreads,       \* self.__numOfThreads
    pc,                 \* position of the driver thread inside run_Sim
    nodeIdx,            \* index of the for-loops over the nodes
    future,             \* per node: state of its Execute in the current step
    timestamp,          \* per node: self.__timestamp
    \* ---- the controller thread calling the runtime API
    apiPc,              \* "idle", "pause" (inside __pause_AtTime), "resume"
    apiArg,             \* _timestep of the call in progress
    apiCur,             \* _currentTimeStep read by the call in progress
    apiRet,             \* value returned by the last pause_AtTime call
    apiCalls,           \* number of API calls made so far
    \* ---- history of the run (never read by the program)
    started,            \* per node: number of Execute calls started
    returned,           \* per node: number of Execute calls that returned
    firedStep,          \* last step at which the gate signalled "paused"
    firedCall,          \* index in pauseLog of the call the last fire answered
    pauseLog,           \* steps of the pause_AtTime calls that returned a token
    armedAtGate,        \* the pause was armed for this step when the gate read it
    resumeCalled,       \* some resume() call has completed
    resumedAt           \* step at which a resume() completed while the run was blocked

mgrVars == <<currentStep, timeStepToStop, stoppingCondition, resumingCondition,
             numOfThreads, pc, nodeIdx, future, timestamp,
             apiPc, apiArg, apiCur, apiRet, apiCalls,
             started, returned, firedStep, firedCall, pauseLog, armedAtGate,
             resumeCalled, resumedAt>>

VARIABLES
    \* ---- the nodes that carry a LoRa radio (ModelLoraRadio + LoraRadioDevice)
    radioStep,                  \* step of the run the radio nodes execute
    radioPc,                    \* per node: position inside Node.Execute
    radioTime,                  \* per node: ownernode.timestamp
    phySetup,                   \* per node: self.__radioPhySetup
    txQueue,                    \* per node: ModelGenericRadio._txQueue (packet sizes)
    temporaryReceivedFrames,    \* per node: self.__temporaryReceivedFrames
    transmittingTimes,          \* per node: self.__transmittingTimes
    rxQueue,                    \* per node: the frames handed to the receive callback
    rxLog,                      \* per node: what __log_Rx wrote to the node's logger
    globalFrameIDCounter,       \* Frame.globalFrameIDCounter
    lastSend,                   \* outcome of the last _send_Packet call
    packetsAdded                \* number of packets given to the radios so far

radioVars == <<radioStep, radioPc, radioTime, phySetup, txQueue,
               temporaryReceivedFrames, transmittingTimes, rxQueue, rxLog,
               globalFrameIDCounter, lastSend, packetsAdded>>

VARIABLES
    \* ---- class Frame, minted by the pool's threads
    framePc,                    \* per thread: position inside Frame.__post_init__
    frameTmp,                   \* per thread: the counter value loaded by `+= 1`
    createdIds                  \* the ids given to frames, in the order given

frameVars == <<framePc, frameTmp, createdIds>>

VARIABLES
    \* ---- a node with a MAC model
    macPeer,                    \* which MAC model the node carries
    macNow,                     \* ownernode.timestamp
    iot,                        \* the fields of ModelMACiot
    gs,                         \* the fields of ModelMACgs
    ttnc                        \* the fields of ModelMACTTnC

macVars == <<macPeer, macNow, iot, gs, ttnc>>

VARIABLES
    \* ---- the FOV index (ModelFovTimeBased) and its precompute (compute_FOVs)
    passes,                     \* per satellite and ground node: what get_Passes returns
    nodeToTimes,                \* ModelFovTimeBased.__nodeToTimes of the main process
    nodeToNode,                 \* ModelFovTimeBased.__nodeToNode of the main process
    preloaded,                  \* ModelFovTimeBased.__preloaded of the main process
    finder,                     \* per node: the thread inside its find_Passes call
    nodeQueue,                  \* compute_FOVs: the satellite ids not yet taken
    fovWorker,                  \* compute_FOVs: per worker process, its position and its copy of the index
    fovQueue,                   \* compute_FOVs: the partial indexes put and not yet drained
    fovDriver,                  \* compute_FOVs: the main process, its position and _processDicts
    fovFile,                    \* the file compute_FOVs wrote, or None
    freshRun                    \* the index and the flag of a later run that calls load_FOVs

fovVars == <<passes, nodeToTimes, nodeToNode, preloaded, finder, nodeQueue,
             fovWorker, fovQueue, fovDriver, fovFile, freshRun>>

VARIABLES
    \* ---- the Orchestrator giving the nodes their models (create_SimEnv)
    nodeModels,                 \* per node created so far: the inames of node.__models
    dependencyResolvedSets,     \* Orchestrator.__dependencyResolvedSetsOfModels
    lastAdd                     \* the last _add_Models call: its arguments and whether it raised

orchVars == <<nodeModels, dependencyResolvedSets, lastAdd>>

VARIABLES
    \* ---- a node with ModelPower and a radio that asks it for energy
    powerCfg,                   \* the node's configuration
    bank,                       \* the fields of ModelPower
    powerRadio,                 \* the radio model: _isRXOn and the outcome of its sends
    powerPc,                    \* the step of the node and the model that runs next
    lastLine,                   \* the last PowerStats line written by __log_Stats
    txFirst,                    \* the node's first _send_Packet call
    lastConsume                 \* the latest consume_Energy call and its result

powerVars == <<powerCfg, bank, powerRadio, powerPc, lastLine, txFirst, lastConsume>>

\* a node as the Runtime API get_NodeInfo sees it, and its caller
VARIABLES
    heap,                       \* the Time and Location objects: object id -> value
    infoNode,                   \* the node's fields: the ids of __timestamp and __position
    held,                       \* the objects get_NodeInfo has returned to the caller
    infoOp                      \* the latest operation on the node or on a returned object

infoVars == <<heap, infoNode, held, infoOp>>

\* the subsystems that are set up before the step loop or beside it
restVars == <<fovVars, orchVars, powerVars, infoVars>>

vars == <<mgrVars, radioVars, frameVars, macVars, restVars>>

Last(s) == s[Len(s)]

(***************************************************************************)
(* Part I.  ManagerParallel                                                *)
(***************************************************************************)

\* ManagerParallel.__init__ and the nodes' constructors
MgrInit ==
    /\ currentStep = 0
    /\ timeStepToStop = None
    /\ stoppingCondition = FALSE
    /\ resumingCondition = FALSE
    /\ numOfThreads \in 1..MaxWorkers
    /\ pc = "init"
    /\ nodeIdx = 1
    /\ future = [n \in Nodes |-> "none"]
    /\ timestamp = [n \in Nodes |-> SimStartTime]
    /\ apiPc = "idle"
    /\ apiArg = 0
    /\ apiCur = 0
    /\ apiRet = "none"
    /\ apiCalls = 0
    /\ started = [n \in Nodes |-> 0]
    /\ returned = [n \in Nodes |-> 0]
    /\ firedStep = None
    /\ firedCall = 0
    /\ pauseLog = <<>>
    /\ armedAtGate = FALSE
    /\ resumeCalled = FALSE
    /\ resumedAt = None

\* a loop test that lets the loop run once more, at step N
LoopContinues_Inclusive(cur) == cur <= NumOfSteps

\* run_Sim line 487: while self.__currentStep < self.__numOfSteps
LoopContinues(cur) == cur < NumOfSteps

\* run_Sim line 490, first conjunct: self.__timeStepToStop is not None
GateArmed(stop) == stop # None

\* run_Sim line 490, second conjunct: self.__timeStepToStop == self.__currentStep
GateMatches(stop, cur) == stop = cur

\* a wait that does not block
WaitReturns_NoBlock(ev) == TRUE

\* run_Sim line 494: self.__resumingCondition.wait() returns once the event is set
WaitReturns(ev) == ev = TRUE

\* a join that does not wait for the futures
FutureDone_NoWait(f) == TRUE

\* a future is finished (result() and shutdown(wait=True) return) once its
\* Execute has returned or raised
FutureDone(f) == f \in {"done", "raised"}

\* results that are never looked at: the exception of an Execute is lost
ResultRaises_Swallowed(f) == FALSE

\* run_Sim line 513: _result.result() re-raises the exception of the Execute
ResultRaises(f) == f = "raised"

\* an Execute that forgets to advance the node's time
NodeExecuteTime_Stuck(t) == t

\* Node.Execute: the models run and the timestamp advances by the time delta
\* while the node has not passed its end time
NodeExecuteTime(t) == IF t <= SimEndTime THEN t + DeltaTime ELSE t

\* a test that also refuses the current step
PauseIsPast_Inclusive(step, cur) == step <= cur

\* __pause_AtTime line 193: if _pauseTimeStep < _currentTimeStep
PauseIsPast(step, cur) == step < cur

\* a store that keeps the pause armed first
PauseStore_KeepFirst(old, new) == IF old = None THEN new ELSE old

\* __pause_AtTime line 196: self.__timeStepToStop = _pauseTimeStep
PauseStore(old, new) == new

\* a resume that forgets to set the resuming event
ResumeSet_Forgets(ev) == ev

\* __resume line 206: self.__resumingCondition.set()
ResumeSet(ev) == TRUE

Running == {n \in Nodes : future[n] = "running"}

apiVars == <<apiPc, apiArg, apiCur, apiRet, apiCalls>>
nodeVars == <<future, timestamp, started, returned>>

\* the caller starts run_Sim on the driver thread
run_Sim_Start ==
    /\ pc = "init"
    /\ pc' = "while"
    /\ UNCHANGED <<currentStep, timeStepToStop, stoppingCondition, resumingCondition,
                   numOfThreads, nodeIdx, apiVars, nodeVars, firedStep, firedCall,
                   pauseLog, armedAtGate, resumeCalled, resumedAt>>
    /\ UNCHANGED <<radioVars, frameVars, macVars, restVars>>

\* line 487: the loop test
run_Sim_While ==
    /\ pc = "while"
    /\ pc' = IF LoopContinues(currentStep) THEN "gate1" ELSE "finalset"
    /\ UNCHANGED <<currentStep, timeStepToStop, stoppingCondition, resumingCondition,
                   numOfThreads, nodeIdx, apiVars, nodeVars, firedStep, firedCall,
                   pauseLog, armedAtGate, resumeCalled, resumedAt>>
    /\ UNCHANGED <<radioVars, frameVars, macVars, restVars>>

\* line 490, first read of __timeStepToStop
run_Sim_GateNone ==
    /\ pc = "gate1"
    /\ pc' = IF GateArmed(timeStepToStop) THEN "gate2" ELSE "dispatch"
    /\ armedAtGate' = (pauseLog # <<>> /\ Last(pauseLog) = currentStep)
    /\ UNCHANGED <<currentStep, timeStepToStop, stoppingCondition, resumingCondition,
                   numOfThreads, nodeIdx, apiVars, nodeVars, firedStep, firedCall,
                   pauseLog, resumeCalled, resumedAt>>
    /\ UNCHANGED <<radioVars, frameVars, macVars, restVars>>

\* line 490, second read of __timeStepToStop
run_Sim_GateStep ==
    /\ pc = "gate2"
    /\ pc' = IF GateMatches(timeStepToStop, currentStep) THEN "setstop" ELSE "dispatch"
    /\ armedAtGate' = (armedAtGate /\ pauseLog # <<>> /\ Last(pauseLog) = currentStep)
    /\ firedCall' = IF GateMatches(timeStepToStop, currentStep)
                    THEN Len(pauseLog) ELSE firedCall
    /\ UNCHANGED <<currentStep, timeStepToStop, stoppingCondition, resumingCondition,
                   numOfThreads, nodeIdx, apiVars, nodeVars, firedStep,
                   pauseLog, resumeCalled, resumedAt>>
    /\ UNCHANGED <<radioVars, frameVars, macVars, restVars>>

\* line 492: self.__stoppingCondition.set()
run_Sim_SetStop ==
    /\ pc = "setstop"
    /\ stoppingCondition' = TRUE
    /\ firedStep' = currentStep
    /\ pc' = "wait"
    /\ UNCHANGED <<currentStep, timeStepToStop, resumingCondition,
                   numOfThreads, nodeIdx, apiVars, nodeVars, firedCall,
                   pauseLog, armedAtGate, resumeCalled, resumedAt>>
    /\ UNCHANGED <<radioVars, frameVars, macVars, restVars>>

\* line 494: self.__resumingCondition.wait()
run_Sim_Wait ==
    /\ pc = "wait"
    /\ WaitReturns(resumingCondition)
    /\ pc' = "clear"
    /\ UNCHANGED <<currentStep, timeStepToStop, stoppingCondition, resumingCondition,
                   numOfThreads, nodeIdx, apiVars, nodeVars, firedStep, firedCall,
                   pauseLog, armedAtGate, resumeCalled, resumedAt>>
    /\ UNCHANGED <<radioVars, frameVars, macVars, restVars>>

\* line 496: self.__resumingCondition.clear()
run_Sim_Clear ==
    /\ pc = "clear"
    /\ resumingCondition' = FALSE
    /\ pc' = "dispatch"
    /\ UNCHANGED <<currentStep, timeStepToStop, stoppingCondition,
                   numOfThreads, nodeIdx, apiVars, nodeVars, firedStep, firedCall,
                   pauseLog, armedAtGate, resumeCalled, resumedAt>>
    /\ UNCHANGED <<radioVars, frameVars, macVars, restVars>>

\* line 501: if self.__numOfThreads > 1
run_Sim_Dispatch ==
    /\ pc = "dispatch"
    /\ pc' = IF numOfThreads > 1 THEN "submit" ELSE "serial"
    /\ nodeIdx' = 1
    /\ UNCHANGED <<currentStep, timeStepToStop, stoppingCondition, resumingCondition,
                   numOfThreads, apiVars, nodeVars, firedStep, firedCall,
                   pauseLog, armedAtGate, resumeCalled, resumedAt>>
    /\ UNCHANGED <<radioVars, frameVars, macVars, restVars>>

\* lines 505-508: executor.submit(_node.Execute) for every node
run_Sim_Submit ==
    /\ pc = "submit"
    /\ IF nodeIdx <= NumNodes
       THEN /\ future' = [future EXCEPT ![nodeIdx] = "pending"]
            /\ nodeIdx' = nodeIdx + 1
            /\ pc' = pc
       ELSE /\ pc' = "results"
            /\ nodeIdx' = 1
            /\ future' = future
    /\ UNCHANGED <<currentStep, timeStepToStop, stoppingCondition, resumingCondition,
                   numOfThreads, apiVars, timestamp, started, returned, firedStep,
                   firedCall, pauseLog, armedAtGate, resumeCalled, resumedAt>>
    /\ UNCHANGED <<radioVars, frameVars, macVars, restVars>>

\* a pool thread takes the oldest work item; at most numOfThreads items run
Worker_Start(n) ==
    /\ future[n] = "pending"
    /\ \A m \in Nodes : m < n => future[m] # "pending"
    /\ Cardinality(Running) < numOfThreads
    /\ future' = [future EXCEPT ![n] = "running"]
    /\ started' = [started EXCEPT ![n] = @ + 1]
    /\ UNCHANGED <<currentStep, timeStepToStop, stoppingCondition, resumingCondition,
                   numOfThreads, pc, nodeIdx, apiVars, timestamp, returned, firedStep,
                   firedCall, pauseLog, armedAtGate, resumeCalled, resumedAt>>
    /\ UNCHANGED <<radioVars, frameVars, macVars, restVars>>

\* Node.Execute returns: every model has run and the timestamp has advanced
Node_Return(n) ==
    /\ future[n] = "running"
    /\ future' = [future EXCEPT ![n] = "done"]
    /\ timestamp' = [timestamp EXCEPT ![n] = NodeExecuteTime(@)]
    /\ returned' = [returned EXCEPT ![n] = @ + 1]
    /\ UNCHANGED <<currentStep, timeStepToStop, stoppingCondition, resumingCondition,
                   numOfThreads, pc, nodeIdx, apiVars, started, firedStep,
                   firedCall, pauseLog, armedAtGate, resumeCalled, resumedAt>>
    /\ UNCHANGED <<radioVars, frameVars, macVars, restVars>>

\* a model of the node raises: Execute is left before the timestamp advances
Node_Raise(n) ==
    /\ future[n] = "running"
    /\ future' = [future EXCEPT ![n] = "raised"]
    /\ UNCHANGED <<currentStep, timeStepToStop, stoppingCondition, resumingCondition,
                   numOfThreads, pc, nodeIdx, apiVars, timestamp, started, returned,
                   firedStep, firedCall, pauseLog, armedAtGate, resumeCalled, resumedAt>>
    /\ UNCHANGED <<radioVars, frameVars, macVars, restVars>>

\* lines 512-513: for _result in _results: _result.result()
run_Sim_Result ==
    /\ pc = "results"
    /\ IF nodeIdx > NumNodes
       THEN pc' = "shutdown_ok" /\ nodeIdx' = nodeIdx
       ELSE /\ FutureDone(future[nodeIdx])
            /\ IF ResultRaises(future[nodeIdx])
               THEN pc' = "shutdown_exc" /\ nodeIdx' = nodeIdx
               ELSE pc' = pc /\ nodeIdx' = nodeIdx + 1
    /\ UNCHANGED <<currentStep, timeStepToStop, stoppingCondition, resumingCondition,
                   numOfThreads, apiVars, nodeVars, firedStep, firedCall,
                   pauseLog, armedAtGate, resumeCalled, resumedAt>>
    /\ UNCHANGED <<radioVars, frameVars, macVars, restVars>>

\* line 502: leaving the with-block joins the pool (shutdown(wait=True)), with
\* or without an exception on its way out
run_Sim_Shutdown ==
    /\ pc \in {"shutdown_ok", "shutdown_exc"}
    /\ \A n \in Nodes : FutureDone(future[n])
    /\ pc' = IF pc = "shutdown_ok" THEN "incr" ELSE "raised"
    /\ UNCHANGED <<currentStep, timeStepToStop, stoppingCondition, resumingCondition,
                   numOfThreads, nodeIdx, apiVars, nodeVars, firedStep, firedCall,
                   pauseLog, armedAtGate, resumeCalled, resumedAt>>
    /\ UNCHANGED <<radioVars, frameVars, macVars, restVars>>

\* lines 515-517: the driver thread itself calls _node.Execute()
run_Sim_SerialCall ==
    /\ pc = "serial"
    /\ nodeIdx <= NumNodes
    /\ future[nodeIdx] = "none"
    /\ future' = [future EXCEPT ![nodeIdx] = "running"]
    /\ started' = [started EXCEPT ![nodeIdx] = @ + 1]
    /\ UNCHANGED <<currentStep, timeStepToStop, stoppingCondition, resumingCondition,
                   numOfThreads, pc, nodeIdx, apiVars, timestamp, returned, firedStep,
                   firedCall, pauseLog, armedAtGate, resumeCalled, resumedAt>>
    /\ UNCHANGED <<radioVars, frameVars, macVars, restVars>>

\* lines 515-517: the call returns (next node) or raises (run_Sim is left)
run_Sim_SerialNext ==
    /\ pc = "serial"
    /\ IF nodeIdx > NumNodes
       THEN pc' = "incr" /\ nodeIdx' = nodeIdx
       ELSE /\ future[nodeIdx] # "none"
            /\ FutureDone(future[nodeIdx])
            /\ IF ResultRaises(future[nodeIdx])
               THEN pc' = "raised" /\ nodeIdx' = nodeIdx
               ELSE pc' = pc /\ nodeIdx' = nodeIdx + 1
    /\ UNCHANGED <<currentStep, timeStepToStop, stoppingCondition, resumingCondition,
                   numOfThreads, apiVars, nodeVars, firedStep, firedCall,
                   pauseLog, armedAtGate, resumeCalled, resumedAt>>
    /\ UNCHANGED <<radioVars, frameVars, macVars, restVars>>

\* line 518: self.__currentStep += 1
run_Sim_Incr ==
    /\ pc = "incr"
    /\ currentStep' = currentStep + 1
    /\ future' = [n \in Nodes |-> "none"]
    /\ armedAtGate' = FALSE
    /\ pc' = "while"
    /\ UNCHANGED <<timeStepToStop, stoppingCondition, resumingCondition,
                   numOfThreads, nodeIdx, apiVars, timestamp, started, returned,
                   firedStep, firedCall, pauseLog, resumeCalled, resumedAt>>
    /\ UNCHANGED <<radioVars, frameVars, macVars, restVars>>

\* line 521: self.__stoppingCondition.set() after the loop
run_Sim_FinalSet ==
    /\ pc = "finalset"
    /\ stoppingCondition' = TRUE
    /\ pc' = "done"
    /\ UNCHANGED <<currentStep, timeStepToStop, resumingCondition,
                   numOfThreads, nodeIdx, apiVars, nodeVars, firedStep, firedCall,
                   pauseLog, armedAtGate, resumeCalled, resumedAt>>
    /\ UNCHANGED <<radioVars, frameVars, macVars, restVars>>

\* call_APIs("pause_AtTime", _timestep = step), lines 184-191: the argument
\* is taken and the current step is read
Api_PauseCall(step) ==
    /\ apiPc = "idle"
    /\ apiCalls < MaxApiCalls
    /\ apiPc' = "pause"
    /\ apiArg' = step
    /\ apiCur' = currentStep
    /\ apiCalls' = apiCalls + 1
    /\ UNCHANGED <<currentStep, timeStepToStop, stoppingCondition, resumingCondition,
                   numOfThreads, pc, nodeIdx, nodeVars, apiRet, firedStep, firedCall,
                   pauseLog, armedAtGate, resumeCalled, resumedAt>>
    /\ UNCHANGED <<radioVars, frameVars, macVars, restVars>>

\* lines 193-197: None for a step of the past, else the pause is stored and the
\* stopping event returned
Api_PauseReturn ==
    /\ apiPc = "pause"
    /\ IF PauseIsPast(apiArg, apiCur)
       THEN /\ apiRet' = "null"
            /\ UNCHANGED <<timeStepToStop, pauseLog>>
       ELSE /\ timeStepToStop' = PauseStore(timeStepToStop, apiArg)
            /\ apiRet' = "token"
            /\ pauseLog' = Append(pauseLog, apiArg)
    /\ apiPc' = "idle"
    /\ apiArg' = 0
    /\ apiCur' = 0
    /\ UNCHANGED <<currentStep, stoppingCondition, resumingCondition,
                   numOfThreads, pc, nodeIdx, nodeVars, apiCalls, firedStep, firedCall,
                   armedAtGate, resumeCalled, resumedAt>>
    /\ UNCHANGED <<radioVars, frameVars, macVars, restVars>>

\* call_APIs("resume"), line 205: self.__stoppingCondition.clear()
Api_ResumeClear ==
    /\ apiPc = "idle"
    /\ apiCalls < MaxApiCalls
    /\ stoppingCondition' = FALSE
    /\ apiPc' = "resume"
    /\ apiCalls' = apiCalls + 1
    /\ UNCHANGED <<currentStep, timeStepToStop, resumingCondition,
                   numOfThreads, pc, nodeIdx, nodeVars, apiArg, apiCur, apiRet,
                   firedStep, firedCall, pauseLog, armedAtGate, resumeCalled, resumedAt>>
    /\ UNCHANGED <<radioVars, frameVars, macVars, restVars>>

\* line 206: self.__resumingCondition.set()
Api_ResumeSet ==
    /\ apiPc = "resume"
    /\ resumingCondition' = ResumeSet(resumingCondition)
    /\ apiPc' = "idle"
    /\ resumeCalled' = TRUE
    /\ resumedAt' = IF pc = "wait" THEN currentStep ELSE resumedAt
    /\ UNCHANGED <<currentStep, timeStepToStop, stoppingCondition,
                   numOfThreads, pc, nodeIdx, nodeVars, apiArg, apiCur, apiRet, apiCalls,
                   firedStep, firedCall, pauseLog, armedAtGate>>
    /\ UNCHANGED <<radioVars, frameVars, macVars, restVars>>

\* __apiHandlerDictionary with, per API, the keyworded arguments whose
\* absence makes the handler raise (lines 88-92, 139-142, 184-185)
RequiredArgs ==
    [api \in {"call_ModelAPIsByModelName", "get_NodeInfo", "pause_AtTime", "resume",
              "get_Topologies", "compute_FOVs", "load_FOVs", "run_OneStep"} |->
        CASE api = "call_ModelAPIsByModelName" ->
                 {"_topologyID", "_nodeID", "_modelName", "_apiName"}
          [] api = "get_NodeInfo" -> {"_topologyID", "_nodeID", "_infoType"}
          [] api = "pause_AtTime" -> {"_timestep"}
          [] OTHER -> {}]

\* an except clause that lets the exception reach the caller
call_APIs_Except_Reraise(raised) == IF raised THEN "raised" ELSE "handler"

\* call_APIs 437-444: _ret starts as None and stays None when the lookup of
\* the handler or the handler itself raises; the exception is printed
call_APIs_Except(raised) == IF raised THEN "null" ELSE "handler"

\* call_APIs with a name that is not in the dictionary, or without an
\* argument the handler requires: the KeyError or the handler's Exception is
\* raised before the handler has written anything
Api_Rejected(api, args) ==
    /\ apiPc = "idle"
    /\ apiCalls < MaxApiCalls
    /\ IF api \in DOMAIN RequiredArgs THEN ~(RequiredArgs[api] \subseteq args) ELSE TRUE
    /\ apiRet' = call_APIs_Except(TRUE)
    /\ apiCalls' = apiCalls + 1
    /\ UNCHANGED <<currentStep, timeStepToStop, stoppingCondition, resumingCondition,
                   numOfThreads, pc, nodeIdx, nodeVars, apiPc, apiArg, apiCur,
                   firedStep, firedCall, pauseLog, armedAtGate, resumeCalled, resumedAt>>
    /\ UNCHANGED <<radioVars, frameVars, macVars, restVars>>

DriverNext ==
    \/ run_Sim_Start \/ run_Sim_While \/ run_Sim_GateNone \/ run_Sim_GateStep
    \/ run_Sim_SetStop \/ run_Sim_Wait \/ run_Sim_Clear \/ run_Sim_Dispatch
    \/ run_Sim_Submit \/ run_Sim_Result \/ run_Sim_Shutdown
    \/ run_Sim_SerialCall \/ run_Sim_SerialNext \/ run_Sim_Incr \/ run_Sim_FinalSet

WorkerNext == \E n \in Nodes : Worker_Start(n) \/ Node_Return(n) \/ Node_Raise(n)

ApiNext ==
    \/ \E step \in Steps : Api_PauseCall(step)
    \/ Api_PauseReturn
    \/ Api_ResumeClear
    \/ Api_ResumeSet
    \/ \E api \in {"pause_AtTime", "get_NodeInfo", "no_such_api"},
          args \in {{}, {"_topologyID", "_nodeID"}} : Api_Rejected(api, args)

MgrNext == DriverNext \/ WorkerNext \/ ApiNext

(***************************************************************************)
(* Part II.  LoraRadioDevice and ModelLoraRadio                            *)
(*                                                                         *)
(* Every radio node carries one ModelLoraRadio with one LoraRadioDevice    *)
(* and no power model.  A node's Execute is taken in two steps, the        *)
(* radio's update_Timestep and the rest (the transmission and the advance  *)
(* of the node's timestamp), so that the Executes of the nodes of one step *)
(* interleave as they do in the worker pool; the serial loop is one of the *)
(* interleavings.  Random draws (PLR, PER), link budgets (propagation      *)
(* delay, RSSI) and the field of view are choices.                         *)
(***************************************************************************)

\* _radioPhySetup: coding rate, bandwidth, spreading factor, and (from the
\* transmission power and the antenna) the strength the radio's frames
\* arrive with, in dB above the weakest radio
PhyDefault == [cr |-> 5, bw |-> 125, sf |-> 7, rssi |-> 0]

\* the radio configurations of the checked instances: all radios alike; the
\* last radio stronger than the others; the last radio with another coding
\* rate and the radio before it with another bandwidth
PhySetups ==
    { [n \in RadioNodes |-> PhyDefault],
      [n \in RadioNodes |-> IF n = NumRadios THEN [PhyDefault EXCEPT !.rssi = RssiStep]
                                             ELSE PhyDefault],
      [n \in RadioNodes |-> IF n = NumRadios THEN [PhyDefault EXCEPT !.cr = 8]
                            ELSE IF n = NumRadios - 1 THEN [PhyDefault EXCEPT !.bw = 250]
                            ELSE PhyDefault] }

\* _selfCtrl: the radio model transmits by itself in Execute; the last radio
\* is driven by a MAC model of its node that calls send_Packet
SelfCtrl(n) == n # NumRadios

NoSend == [node |-> 0, ret |-> FALSE, why |-> "none"]

\* the constructors of the radio model and of its device
RadioStart(phy) ==
    /\ radioStep = 0
    /\ radioPc = [n \in RadioNodes |-> "update"]
    /\ radioTime = [n \in RadioNodes |-> SimStartTime]
    /\ phySetup = phy
    /\ txQueue = [n \in RadioNodes |-> <<>>]
    /\ temporaryReceivedFrames = [n \in RadioNodes |-> <<>>]
    /\ transmittingTimes = [n \in RadioNodes |-> <<>>]
    /\ rxQueue = [n \in RadioNodes |-> <<>>]
    /\ rxLog = [n \in RadioNodes |-> {}]
    /\ globalFrameIDCounter = 0
    /\ lastSend = NoSend
    /\ packetsAdded = 0

Abs(x) == IF x < 0 THEN 0 - x ELSE x

SetMin(S) == CHOOSE x \in S : \A y \in S : x <= y

RemoveAt(s, i) == SubSeq(s, 1, i - 1) \o SubSeq(s, i + 1, Len(s))

\* LoraLink.get_TimeOnAir: grows with the size of the frame
TimeOnAir(size) == 1 + size \div BytesPerTick

\* get_View of the node's field-of-view model: a ground node looks for
\* satellites, a satellite for ground stations and IoT devices
ViewCandidates(n) == IF n \in SatNodes THEN GroundNodes ELSE SatNodes

\* what a link gives a frame: the propagation delay and the PLR draw
LinkOutcomes ==
    { [prop |-> p, plrDrop |-> FALSE] : p \in 0..MaxProp }
    \cup { [prop |-> 0, plrDrop |-> TRUE] }

\* a radio that never finds itself busy
is_TxBusy_Never(txs, now) == FALSE

\* is_TxBusy: some recorded transmission window holds the current time
is_TxBusy(txs, now) ==
    \E k \in 1..Len(txs) : txs[k][1] <= now /\ now < txs[k][2]

\* send: the reception-end time of a frame
FrameEndReception(now, prop, toa) == now + (prop + toa)

\* the copy of the frame send() makes for one destination
NewFrame(n, id, size, inst, now, lk) ==
    [id |-> id, source |-> n, size |-> size, instanceID |-> inst,
     startTx |-> now, endTx |-> now + TimeOnAir(size),
     startRx |-> now + lk.prop,
     endRx |-> FrameEndReception(now, lk.prop, TimeOnAir(size)),
     rssi |-> phySetup[n].rssi,
     cr |-> phySetup[n].cr, bw |-> phySetup[n].bw, sf |-> phySetup[n].sf,
     collidedIDs |-> {}]

\* receive() at device d: bandwidth / spreading factor mismatch, PLR draw,
\* or the frame joins the pending frames of d
receive(d, f, plrDrop) ==
    IF f.bw # phySetup[d].bw \/ f.sf # phySetup[d].sf THEN "crbwDrop"
    ELSE IF plrDrop THEN "plrDrop"
    ELSE "pending"

LogEntry(f, why, at) == [id |-> f.id, source |-> f.source, why |-> why, at |-> at]

\* update_Timestep: two reception windows overlap
TimeOverlap(cs, ce, os, oe) == ~(cs >= oe \/ ce <= os)

AddCollided(f, id) == [f EXCEPT !.collidedIDs = @ \cup {id}]

\* a comparison that marks the other frame only
CollidePair_MarksOther(cur, other) ==
    IF TimeOverlap(cur.startRx, cur.endRx, other.startRx, other.endRx)
    THEN <<cur, AddCollided(other, cur.id)>>
    ELSE <<cur, other>>

\* update_Timestep, the body of the loop over the other pending frames: the
\* pair <<current frame, other frame>> with the collision marks added
CollidePair(cur, other) ==
    IF ~TimeOverlap(cur.startRx, cur.endRx, other.startRx, other.endRx)
    THEN <<cur, other>>
    ELSE IF Abs(cur.rssi - other.rssi) < CaptureThreshold
    THEN <<AddCollided(cur, other.id), AddCollided(other, cur.id)>>
    ELSE LET curIsStronger == cur.rssi > other.rssi
             curIsWeaker == cur.rssi < other.rssi
             stronger == IF curIsStronger THEN cur ELSE other
             weaker == IF curIsWeaker THEN cur ELSE other
             strongerFirst == stronger.startRx < weaker.startRx
             timeDiff == weaker.startRx - stronger.startRx
             both == ~strongerFirst /\ timeDiff > LockTicks
         IN  IF curIsWeaker
             THEN <<AddCollided(cur, other.id),
                    IF both THEN AddCollided(other, cur.id) ELSE other>>
             ELSE <<IF both THEN AddCollided(cur, other.id) ELSE cur,
                    AddCollided(other, cur.id)>>

RECURSIVE CompareWithOthers(_, _, _)
\* update_Timestep: `for _otherFrame in self.__temporaryReceivedFrames`
CompareWithOthers(cur, others, k) ==
    IF k > Len(others) THEN <<cur, others>>
    ELSE LET p == CollidePair(cur, others[k])
         IN  CompareWithOthers(p[1], [others EXCEPT ![k] = p[2]], k + 1)

\* update_Timestep: the overlap test of a reception with a transmission window
TxOverlap(f, w) ==
    \/ (f.startRx <= w[1] /\ w[1] < f.endRx)
    \/ (f.startRx < w[2] /\ w[2] <= f.endRx)

HalfDuplexDrop(f, txs) == \E k \in 1..Len(txs) : TxOverlap(f, txs[k])

\* a frame is processed as soon as its reception has started
FrameReady_AtStart(f, now) == f.startRx <= now

\* update_Timestep: "the packet has fully transmitted"
FrameReady(f, now) == f.endRx <= now

RECURSIVE ProcessFrames(_, _, _, _, _, _, _)
\* update_Timestep: the while loop over the pending frames.  acc collects
\* the frames handed to the receive callback and the lines logged.
ProcessFrames(frames, idx, now, txs, phy, perDrops, acc) ==
    IF idx > Len(frames)
    THEN [frames |-> frames, delivered |-> acc.delivered, log |-> acc.log]
    ELSE IF ~FrameReady(frames[idx], now)
    THEN ProcessFrames(frames, idx + 1, now, txs, phy, perDrops, acc)
    ELSE LET c == CompareWithOthers(frames[idx], RemoveAt(frames, idx), 1)
             cur == c[1]
             frameDrop == HalfDuplexDrop(cur, txs)
             crMatches == cur.cr = phy.cr
             perDrop == cur.id \in perDrops
             lines ==
                 IF cur.collidedIDs # {} THEN {LogEntry(cur, "collision", now)}
                 ELSE (IF frameDrop THEN {LogEntry(cur, "txBusyDrop", now)} ELSE {})
                      \cup (IF ~crMatches THEN {LogEntry(cur, "crbwDrop", now)}
                            ELSE IF frameDrop THEN {}
                            ELSE IF perDrop THEN {LogEntry(cur, "perDrop", now)}
                            ELSE {LogEntry(cur, "success", now)})
             deliver == /\ cur.collidedIDs = {}
                        /\ crMatches /\ ~frameDrop /\ ~perDrop
         IN  ProcessFrames(c[2], idx, now, txs, phy, perDrops,
                 [delivered |-> IF deliver
                                THEN Append(acc.delivered, [frame |-> cur, at |-> now])
                                ELSE acc.delivered,
                  log |-> acc.log \cup lines])

\* update_Timestep: the time up to which transmission windows are dropped
EarliestReception(frames, now) ==
    IF Len(frames) > 0
    THEN LET first == SetMin({frames[i].startRx : i \in 1..Len(frames)})
         IN  IF first > now THEN first ELSE now
    ELSE now

\* update_Timestep: the loop that removes transmission windows
CleanTransmittingTimes(txs, earliest) ==
    LET Kept(w) == ~(w[2] <= earliest) IN SelectSeq(txs, Kept)

\* update_Timestep of the device of node n, with the PER draws given
update_Timestep(n, perDrops) ==
    LET r == ProcessFrames(temporaryReceivedFrames[n], 1, radioTime[n],
                           transmittingTimes[n], phySetup[n], perDrops,
                           [delivered |-> <<>>, log |-> {}])
    IN  [frames |-> r.frames, delivered |-> r.delivered, log |-> r.log,
         txs |-> CleanTransmittingTimes(transmittingTimes[n],
                                        EarliestReception(r.frames, radioTime[n]))]

\* an upper layer of node n hands a packet to the radio model
\* (add_PacketToTransmit) between two steps: the radio model sends a packet
\* no earlier than in its next Execute
Radio_AddPacket(n, size) ==
    /\ \A m \in RadioNodes : radioPc[m] = "update"
    /\ packetsAdded < MaxPackets
    /\ txQueue' = [txQueue EXCEPT ![n] = Append(@, size)]
    /\ packetsAdded' = packetsAdded + 1
    /\ UNCHANGED <<radioStep, radioPc, radioTime, phySetup, temporaryReceivedFrames,
                   transmittingTimes, rxQueue, rxLog, globalFrameIDCounter, lastSend>>
    /\ UNCHANGED <<mgrVars, frameVars, macVars, restVars>>

\* ModelGenericRadio.Execute of node n, first part: update_Timestep
Radio_Update(n) ==
    /\ radioPc[n] = "update"
    /\ LET sure == update_Timestep(n, {})
       IN  \E perDrops \in SUBSET {sure.delivered[k].frame.id : k \in 1..Len(sure.delivered)} :
             LET r == update_Timestep(n, perDrops)
             IN  /\ temporaryReceivedFrames' =
                        [temporaryReceivedFrames EXCEPT ![n] = r.frames]
                 /\ transmittingTimes' = [transmittingTimes EXCEPT ![n] = r.txs]
                 /\ rxQueue' = [rxQueue EXCEPT ![n] = @ \o r.delivered]
                 /\ rxLog' = [rxLog EXCEPT ![n] = @ \cup r.log]
    /\ radioPc' = [radioPc EXCEPT ![n] = "send"]
    /\ UNCHANGED <<radioStep, radioTime, phySetup, txQueue, globalFrameIDCounter,
                   lastSend, packetsAdded>>
    /\ UNCHANGED <<mgrVars, frameVars, macVars, restVars>>

\* LoraRadioDevice.send refuses the frame
SendRejected(n, why) ==
    /\ lastSend' = [node |-> n, ret |-> FALSE, why |-> why]
    /\ UNCHANGED <<temporaryReceivedFrames, transmittingTimes, rxLog>>

\* LoraRadioDevice.send: a copy of the frame for every device of the channel
\* but the sender, handed to the receive() of that device; a transmission
\* window is recorded for every copy
SendToChannel(n, size, view, link) ==
    LET now == radioTime[n]
        inst(d) == Cardinality({e \in view : e <= d})
        frame(d) == NewFrame(n, globalFrameIDCounter, size, inst(d), now, link[d])
        got(d) == receive(d, frame(d), link[d].plrDrop)
        window == <<now, now + TimeOnAir(size)>>
    IN  /\ temporaryReceivedFrames' =
               [d \in RadioNodes |->
                   IF d \in view /\ got(d) = "pending"
                   THEN Append(temporaryReceivedFrames[d], frame(d))
                   ELSE temporaryReceivedFrames[d]]
        /\ rxLog' =
               [d \in RadioNodes |->
                   IF d \in view /\ got(d) # "pending"
                   THEN rxLog[d] \cup {LogEntry(frame(d), got(d), radioTime[d])}
                   ELSE rxLog[d]]
        /\ transmittingTimes' =
               [transmittingTimes EXCEPT
                   ![n] = @ \o [k \in 1..Cardinality(view) |-> window]]
        /\ lastSend' = [node |-> n, ret |-> TRUE, why |-> "sent"]

\* a send that refuses a frame of exactly MTU bytes too
send_RefusesAtMTU(n, size, view) ==
    /\ globalFrameIDCounter' = globalFrameIDCounter + 1
    /\ IF size >= LoraMTU THEN SendRejected(n, "mtuDrop")
       ELSE IF is_TxBusy(transmittingTimes[n], radioTime[n])
       THEN SendRejected(n, "busyDrop")
       ELSE \E link \in [view -> LinkOutcomes] : SendToChannel(n, size, view, link)

\* LoraRadioDevice.send of a frame of the given size on the channel `view`
send(n, size, view) ==
    /\ globalFrameIDCounter' = globalFrameIDCounter + 1
    /\ IF size > LoraMTU THEN SendRejected(n, "mtuDrop")
       ELSE IF is_TxBusy(transmittingTimes[n], radioTime[n])
       THEN SendRejected(n, "busyDrop")
       ELSE \E link \in [view -> LinkOutcomes] : SendToChannel(n, size, view, link)

\* ModelGenericRadio._send_Packet: the packet at the head of the tx queue is
\* taken, the channel is rebuilt from the view (_update_Channel), and the
\* packet goes to the device
send_Packet(n) ==
    IF txQueue[n] = <<>>
    THEN /\ lastSend' = [node |-> n, ret |-> FALSE, why |-> "emptyQueue"]
         /\ UNCHANGED <<txQueue, temporaryReceivedFrames, transmittingTimes,
                        rxLog, globalFrameIDCounter>>
    ELSE /\ txQueue' = [txQueue EXCEPT ![n] = Tail(@)]
         /\ \E view \in SUBSET ViewCandidates(n) :
              IF view = {}
              THEN /\ lastSend' = [node |-> n, ret |-> FALSE, why |-> "noChannel"]
                   /\ UNCHANGED <<temporaryReceivedFrames, transmittingTimes,
                                  rxLog, globalFrameIDCounter>>
              ELSE send(n, Head(txQueue[n]), view)

NoTransmission ==
    UNCHANGED <<txQueue, temporaryReceivedFrames, transmittingTimes, rxLog,
                globalFrameIDCounter, lastSend>>

\* Node.Execute of node n, the rest: the radio model transmits (by itself, or
\* its node's MAC model calls send_Packet), and the node's timestamp advances
Radio_Send(n) ==
    /\ radioPc[n] = "send"
    /\ IF SelfCtrl(n)
       THEN IF txQueue[n] = <<>> \/ is_TxBusy(transmittingTimes[n], radioTime[n])
            THEN NoTransmission
            ELSE send_Packet(n)
       ELSE \E call \in BOOLEAN : IF call THEN send_Packet(n) ELSE NoTransmission
    /\ radioTime' = [radioTime EXCEPT ![n] = NodeExecuteTime(@)]
    /\ radioPc' = [radioPc EXCEPT ![n] = "done"]
    /\ UNCHANGED <<radioStep, phySetup, rxQueue, packetsAdded>>
    /\ UNCHANGED <<mgrVars, frameVars, macVars, restVars>>

\* run_Sim: every Execute of the step has returned, the next step begins
Radio_NextStep ==
    /\ \A n \in RadioNodes : radioPc[n] = "done"
    /\ LoopContinues(radioStep + 1)
    /\ radioStep' = radioStep + 1
    /\ radioPc' = [n \in RadioNodes |-> "update"]
    /\ lastSend' = NoSend
    /\ UNCHANGED <<radioTime, phySetup, txQueue, temporaryReceivedFrames,
                   transmittingTimes, rxQueue, rxLog, globalFrameIDCounter,
                   packetsAdded>>
    /\ UNCHANGED <<mgrVars, frameVars, macVars, restVars>>

RadioNext ==
    \/ \E n \in RadioNodes, size \in PacketSizes : Radio_AddPacket(n, size)
    \/ \E n \in RadioNodes : Radio_Update(n)
    \/ \E n \in RadioNodes : Radio_Send(n)
    \/ Radio_NextStep

\* the threads of the pool
Threads == 1..MaxWorkers

\* class Frame: no frame in the making (Frame.__post_init__, Part IV)
FrameStart ==
    /\ framePc = [t \in Threads |-> "idle"]
    /\ frameTmp = [t \in Threads |-> 0]
    /\ createdIds = <<>>

\* nothing was handed to send_Packet in the Execute
NoTx == [kind |-> "none", ids |-> {}, ok |-> FALSE]

\* the constructors of the three models; nextBeacon is the first beacon time
\* the satellite drew
MacStart(peer, nextBeacon) ==
    /\ macPeer = peer
    /\ macNow = SimStartTime
    /\ iot = [state |-> 1, data |-> None, seq |-> 0, transmitTime |-> None,
              tx |-> NoTx, rx |-> [beacon |-> FALSE, acks |-> {}], sends |-> 0]
    /\ gs = [state |-> 1, listening |-> None, received |-> {}, last |-> None,
             tx |-> NoTx, rx |-> [beacon |-> None, data |-> {}, controls |-> {}]]
    /\ ttnc = [state |-> 1, nextBeacon |-> nextBeacon, toSend |-> <<>>,
               sent |-> <<>>, seq |-> 0, tx |-> NoTx,
               rx |-> [wanted |-> 0, ack |-> FALSE, ackIds |-> {}], acked |-> {}]

\* no MAC model is followed
NoMac == MacStart("none", SimStartTime + BeaconInterval)

\* the satellites come first in the topology, then the ground nodes
FovSats == 0..(NumSats - 1)
FovGrounds == NumSats..(NumSats + NumGrounds - 1)
FovNodes == FovSats \cup FovGrounds

\* an index without rows: every node's array is None (a missing key, None and
\* an empty array are all read as "no rows" by get_View and by the merge)
NoRows == [n \in FovNodes |-> <<>>]

\* the FOV models after construction, with get_Passes answering p and the
\* nodes' clocks at t; no precompute has started, nothing was persisted
FovStart(p, t) ==
    /\ passes = p
    /\ nodeToTimes = NoRows
    /\ nodeToNode = [n \in FovNodes |-> <<>>]
    /\ preloaded = FALSE
    /\ finder = [n \in FovNodes |-> [pc |-> "idle", toCheck |-> <<>>, at |-> t, view |-> <<>>]]
    /\ nodeQueue = <<>>
    /\ fovWorker = [w \in 1..FovWorkers |-> [pc |-> "none", last |-> -1, index |-> NoRows]]
    /\ fovQueue = <<>>
    /\ fovDriver = [pc |-> "idle", processDicts |-> <<>>]
    /\ fovFile = [written |-> FALSE, items |-> {}]
    /\ freshRun = [nodeToTimes |-> NoRows, preloaded |-> FALSE]

\* no node of the run carries a FOV model
FovIdle == FovStart([p \in FovSats \X FovGrounds |-> <<>>], 0)

\* the Orchestrator before it has created a node
OrchStart ==
    /\ nodeModels = <<>>
    /\ dependencyResolvedSets = <<>>
    /\ lastAdd = [nodeClass |-> "none", details |-> <<>>, raised |-> FALSE]

\* ModelPower and the radio after construction, with configuration cfg
PowerStart(cfg) ==
    /\ powerCfg = cfg
    /\ bank = [currentCharge |-> cfg.initial,
               requiredTx |-> cfg.requiredTx, requiredRx |-> None,
               requested |-> FALSE, granted |-> "None", consumed |-> 0]
    /\ powerRadio = [isRXOn |-> TRUE, lastSend |-> "none"]
    /\ powerPc = [step |-> 0, next |-> 1]
    /\ lastLine = [step |-> None, requested |-> FALSE, granted |-> "None", consumed |-> 0]
    /\ txFirst = [step |-> None, short |-> FALSE, sent |-> FALSE]
    /\ lastConsume = [energy |-> None, before |-> None, after |-> None, ret |-> FALSE]

\* no node of the run carries a power model
PowerIdle ==
    PowerStart([initial |-> MinCharge, txEnergy |-> 1, rxEnergy |-> 0, alwaysOn |-> <<>>,
                requiredTx |-> None, radioFirst |-> FALSE])

\* a ground station after construction: its time is a copy of the start
\* time (gsbasic.py 314), its position the Location built from the
\* configuration
InfoStart ==
    /\ heap = [o \in 1..MaxObjects |-> IF o <= 2 THEN 0 ELSE None]
    /\ infoNode = [timestamp |-> 1, position |-> 2]
    /\ held = {}
    /\ infoOp = "init"

RestIdle == FovIdle /\ OrchStart /\ PowerIdle /\ InfoStart

\* the state after construction: the manager with its nodes, no radio traffic
Init == MgrInit /\ RadioStart([n \in RadioNodes |-> PhyDefault]) /\ FrameStart /\ NoMac /\ RestIdle

Next == MgrNext

Spec == Init /\ [][Next]_vars

\* the driver and the pool threads are scheduled; the controller may stop calling
FairSpec == Spec /\ WF_vars(DriverNext) /\ WF_vars(WorkerNext)

\* the radio nodes configured, before the first step of a serial run
RadioInit == /\ MgrInit
             /\ numOfThreads = 1
             /\ \E phy \in PhySetups : RadioStart(phy)
             /\ FrameStart /\ NoMac /\ RestIdle

RadioSpec == RadioInit /\ [][RadioNext]_vars

(***************************************************************************)
(* Part III.  ImagingRadioDevice and ModelImagingRadio                     *)
(*                                                                         *)
(* The same nodes carrying imaging radios: the radio model is the generic  *)
(* one (tx queue, Execute, _send_Packet), the device differs from the LoRa *)
(* device in its MTU (none), in is_TxBusy (it also forgets old windows),   *)
(* in the channel (one per visible device, channel 0 is used), in receive  *)
(* (bandwidth only) and in update_Timestep (no capture, no half-duplex and *)
(* no coding-rate test).                                                   *)
(***************************************************************************)

\* ImagingRadioDevice.update_Timestep: the overlap test of two receptions
ImagingTimeOverlap(cs, ce, os, oe) ==
    ~(cs >= oe \/ ce <= os \/ (cs = os /\ ce = oe))

\* ImagingRadioDevice.update_Timestep, the body of the loop over the other
\* pending frames: on overlap both frames are marked, whatever their RSSI
ImagingCollidePair(cur, other) ==
    IF ImagingTimeOverlap(cur.startRx, cur.endRx, other.startRx, other.endRx)
    THEN <<AddCollided(cur, other.id), AddCollided(other, cur.id)>>
    ELSE <<cur, other>>

RECURSIVE ImagingCompareWithOthers(_, _, _)
\* ImagingRadioDevice.update_Timestep: `for _otherFrame in self.__temporaryReceivedFrames`
ImagingCompareWithOthers(cur, others, k) ==
    IF k > Len(others) THEN <<cur, others>>
    ELSE LET p == ImagingCollidePair(cur, others[k])
         IN  ImagingCompareWithOthers(p[1], [others EXCEPT ![k] = p[2]], k + 1)

RECURSIVE ImagingProcessFrames(_, _, _, _, _)
\* ImagingRadioDevice.update_Timestep: the while loop over the pending frames
ImagingProcessFrames(frames, idx, now, perDrops, acc) ==
    IF idx > Len(frames)
    THEN [frames |-> frames, delivered |-> acc.delivered, log |-> acc.log]
    ELSE IF ~FrameReady(frames[idx], now)
    THEN ImagingProcessFrames(frames, idx + 1, now, perDrops, acc)
    ELSE LET c == ImagingCompareWithOthers(frames[idx], RemoveAt(frames, idx), 1)
             cur == c[1]
             perDrop == cur.id \in perDrops
             line == IF cur.collidedIDs # {} THEN LogEntry(cur, "collision", now)
                     ELSE IF perDrop THEN LogEntry(cur, "perDrop", now)
                     ELSE LogEntry(cur, "success", now)
             deliver == cur.collidedIDs = {} /\ ~perDrop
         IN  ImagingProcessFrames(c[2], idx, now, perDrops,
                 [delivered |-> IF deliver
                                THEN Append(acc.delivered, [frame |-> cur, at |-> now])
                                ELSE acc.delivered,
                  log |-> acc.log \cup {line}])

\* ImagingRadioDevice.update_Timestep of the device of node n, with the PER
\* draws given
imaging_update_Timestep(n, perDrops) ==
    LET r == ImagingProcessFrames(temporaryReceivedFrames[n], 1, radioTime[n],
                                  perDrops, [delivered |-> <<>>, log |-> {}])
    IN  [frames |-> r.frames, delivered |-> r.delivered, log |-> r.log,
         txs |-> CleanTransmittingTimes(transmittingTimes[n],
                                        EarliestReception(r.frames, radioTime[n]))]

\* ImagingRadioDevice.is_TxBusy: the transmission windows it leaves (its
\* answer is that of is_TxBusy)
ImagingKeptWindows(txs, now) ==
    LET Kept(w) == ~(now > w[2]) IN SelectSeq(txs, Kept)

\* ModelGenericRadio.Execute of node n, first part: update_Timestep
Imaging_Update(n) ==
    /\ radioPc[n] = "update"
    /\ LET sure == imaging_update_Timestep(n, {})
       IN  \E perDrops \in SUBSET {sure.delivered[k].frame.id : k \in 1..Len(sure.delivered)} :
             LET r == imaging_update_Timestep(n, perDrops)
             IN  /\ temporaryReceivedFrames' =
                        [temporaryReceivedFrames EXCEPT ![n] = r.frames]
                 /\ transmittingTimes' = [transmittingTimes EXCEPT ![n] = r.txs]
                 /\ rxQueue' = [rxQueue EXCEPT ![n] = @ \o r.delivered]
                 /\ rxLog' = [rxLog EXCEPT ![n] = @ \cup r.log]
    /\ radioPc' = [radioPc EXCEPT ![n] = "send"]
    /\ UNCHANGED <<radioStep, radioTime, phySetup, txQueue, globalFrameIDCounter,
                   lastSend, packetsAdded>>
    /\ UNCHANGED <<mgrVars, frameVars, macVars, restVars>>

\* ImagingRadioDevice.send of a frame of the given size: no size exceeds the
\* MTU; a busy radio refuses; otherwise one copy goes to the other device of
\* channel 0, one of the devices in view, and one window is recorded
imaging_send(n, size, view) ==
    LET now == radioTime[n]
        txs == ImagingKeptWindows(transmittingTimes[n], now)
    IN  /\ globalFrameIDCounter' = globalFrameIDCounter + 1
        /\ IF is_TxBusy(transmittingTimes[n], now)
           THEN /\ lastSend' = [node |-> n, ret |-> FALSE, why |-> "busyDrop"]
                /\ transmittingTimes' = [transmittingTimes EXCEPT ![n] = txs]
                /\ UNCHANGED <<temporaryReceivedFrames, rxLog>>
           ELSE \E d \in view, lk \in LinkOutcomes :
                  LET frame == NewFrame(n, globalFrameIDCounter, size, 1, now, lk)
                      got == IF frame.bw # phySetup[d].bw THEN "crbwDrop"
                             ELSE IF lk.plrDrop THEN "plrDrop" ELSE "pending"
                  IN  /\ temporaryReceivedFrames' =
                             [temporaryReceivedFrames EXCEPT
                                 ![d] = IF got = "pending" THEN Append(@, frame) ELSE @]
                      /\ rxLog' =
                             [rxLog EXCEPT
                                 ![d] = IF got # "pending"
                                        THEN @ \cup {LogEntry(frame, got, radioTime[d])}
                                        ELSE @]
                      /\ transmittingTimes' =
                             [transmittingTimes EXCEPT
                                 ![n] = Append(txs, <<now, now + TimeOnAir(size)>>)]
                      /\ lastSend' = [node |-> n, ret |-> TRUE, why |-> "sent"]

\* ModelGenericRadio._send_Packet with ModelImagingRadio._update_Channel
imaging_send_Packet(n) ==
    IF txQueue[n] = <<>>
    THEN /\ lastSend' = [node |-> n, ret |-> FALSE, why |-> "emptyQueue"]
         /\ UNCHANGED <<txQueue, temporaryReceivedFrames, transmittingTimes,
                        rxLog, globalFrameIDCounter>>
    ELSE /\ txQueue' = [txQueue EXCEPT ![n] = Tail(@)]
         /\ \E view \in SUBSET ViewCandidates(n) :
              IF view = {}
              THEN /\ lastSend' = [node |-> n, ret |-> FALSE, why |-> "noChannel"]
                   /\ UNCHANGED <<temporaryReceivedFrames, transmittingTimes,
                                  rxLog, globalFrameIDCounter>>
              ELSE imaging_send(n, Head(txQueue[n]), view)

\* Node.Execute of node n, the rest: the imaging radio model transmits (by
\* itself, or its node's MAC model calls send_Packet), and the node's
\* timestamp advances
Imaging_Send(n) ==
    /\ radioPc[n] = "send"
    /\ IF SelfCtrl(n)
       THEN IF txQueue[n] = <<>>
            THEN NoTransmission
            ELSE IF is_TxBusy(transmittingTimes[n], radioTime[n])
            THEN /\ transmittingTimes' =
                        [transmittingTimes EXCEPT
                            ![n] = ImagingKeptWindows(@, radioTime[n])]
                 /\ UNCHANGED <<txQueue, temporaryReceivedFrames, rxLog,
                                globalFrameIDCounter, lastSend>>
            ELSE imaging_send_Packet(n)
       ELSE \E call \in BOOLEAN : IF call THEN imaging_send_Packet(n) ELSE NoTransmission
    /\ radioTime' = [radioTime EXCEPT ![n] = NodeExecuteTime(@)]
    /\ radioPc' = [radioPc EXCEPT ![n] = "done"]
    /\ UNCHANGED <<radioStep, phySetup, rxQueue, packetsAdded>>
    /\ UNCHANGED <<mgrVars, frameVars, macVars, restVars>>

ImagingNext ==
    \/ \E n \in RadioNodes, size \in PacketSizes : Radio_AddPacket(n, size)
    \/ \E n \in RadioNodes : Imaging_Update(n)
    \/ \E n \in RadioNodes : Imaging_Send(n)
    \/ Radio_NextStep

\* the nodes with imaging radios of one bandwidth, before the first step of a
\* serial run
ImagingInit == /\ MgrInit
               /\ numOfThreads = 1
               /\ RadioStart([n \in RadioNodes |-> PhyDefault])
               /\ FrameStart /\ NoMac /\ RestIdle

ImagingSpec == ImagingInit /\ [][ImagingNext]_vars

(***************************************************************************)
(* Part IV.  Frame.__post_init__: the minting of frame ids                 *)
(*                                                                         *)
(* Every send creates a Frame; with numOfThreads > 1 the sends of one step *)
(* run on the threads of the pool.  __post_init__ enters                   *)
(* `with threading.Lock():`, a lock object made by that very call and      *)
(* known to no other thread, so entering it never waits; inside, it reads  *)
(* the class counter into self.id and then increments the counter (a load  *)
(* and a store).  A thread may be preempted between any two of these.      *)
(***************************************************************************)

\* line 40, under the call's own lock: self.id = Frame.globalFrameIDCounter
Frame_AssignId(t) ==
    /\ framePc[t] = "idle"
    /\ Len(createdIds) < MaxFrames
    /\ createdIds' = Append(createdIds, globalFrameIDCounter)
    /\ framePc' = [framePc EXCEPT ![t] = "assigned"]
    /\ UNCHANGED <<frameTmp, globalFrameIDCounter>>
    /\ UNCHANGED <<radioStep, radioPc, radioTime, phySetup, txQueue,
                   temporaryReceivedFrames, transmittingTimes, rxQueue, rxLog,
                   lastSend, packetsAdded, mgrVars, macVars, restVars>>

\* line 41, first half: the value of Frame.globalFrameIDCounter is loaded
Frame_LoadCounter(t) ==
    /\ framePc[t] = "assigned"
    /\ frameTmp' = [frameTmp EXCEPT ![t] = globalFrameIDCounter]
    /\ framePc' = [framePc EXCEPT ![t] = "loaded"]
    /\ UNCHANGED <<createdIds, globalFrameIDCounter>>
    /\ UNCHANGED <<radioStep, radioPc, radioTime, phySetup, txQueue,
                   temporaryReceivedFrames, transmittingTimes, rxQueue, rxLog,
                   lastSend, packetsAdded, mgrVars, macVars, restVars>>

\* line 41, second half: the value plus one is stored; the lock is left
Frame_StoreCounter(t) ==
    /\ framePc[t] = "loaded"
    /\ globalFrameIDCounter' = frameTmp[t] + 1
    /\ framePc' = [framePc EXCEPT ![t] = "idle"]
    /\ UNCHANGED <<frameTmp, createdIds>>
    /\ UNCHANGED <<radioStep, radioPc, radioTime, phySetup, txQueue,
                   temporaryReceivedFrames, transmittingTimes, rxQueue, rxLog,
                   lastSend, packetsAdded, mgrVars, macVars, restVars>>

FrameNext ==
    \/ \E t \in Threads : Frame_AssignId(t)
    \/ \E t \in Threads : Frame_LoadCounter(t)
    \/ \E t \in Threads : Frame_StoreCounter(t)

\* a parallel run whose threads create frames
FrameInit == /\ MgrInit
             /\ numOfThreads = MaxWorkers
             /\ RadioStart([n \in RadioNodes |-> PhyDefault])
             /\ FrameStart /\ NoMac /\ RestIdle

FrameSpec == FrameInit /\ [][FrameNext]_vars

(***************************************************************************)
(* Part V.  The MAC models: ModelMACiot, ModelMACgs, ModelMACTTnC          *)
(*                                                                         *)
(* One node carrying one of the three MAC models is followed through its   *)
(* Executes, one per step.  What its radio model hands it (the MAC units   *)
(* received since the last Execute), what send_Packet answers (false when  *)
(* the radio is busy or has no channel), what the data generator or the    *)
(* data store holds and the random draws are choices.  A MAC unit is known *)
(* by its id; the units a peer makes are numbered by its sequence number.  *)
(***************************************************************************)

DataIds == 0..(MaxData - 1)

\* the radio ids of the satellites a ground station can hear
SatRadios == {1, 2}

\* the end time of the node that carries the MAC model
MacEndTime == SimStartTime + MacSteps * DeltaTime

\* an ack for any data unit is taken for the ack awaited
check_AcksReceived_Any(desired, acks) == acks # {}

\* ModelMACiot.__check_AcksReceived: some ack received carries the id of the
\* data unit in flight
check_AcksReceived(desired, acks) == desired \in acks

\* ModelMACiot.Execute.  rx: the units received (a beacon or not, the data
\* ids acknowledged); hasData: the generator has a data unit; backoff: the
\* draw of state 3; ok: the answer of send_Packet.  The fields rx (the
\* units received in the last Execute) and sends (how often the radio has
\* accepted the current data unit) are kept for the properties.
Iot_Execute(rx, hasData, backoff, ok) ==
    /\ macPeer = "iot"
    /\ macNow <= MacEndTime
    /\ LET now == macNow
           \* state 6: the ack, the timeout, or still waiting (return)
           acked == iot.state = 6 /\ check_AcksReceived(iot.data, rx.acks)
           timedOut == /\ iot.state = 6 /\ ~acked
                       /\ iot.transmitTime + RetransmitInterval <= now
           waiting == iot.state = 6 /\ ~acked /\ ~timedOut
           s6 == IF acked THEN 1 ELSE IF timedOut THEN 2 ELSE iot.state
           \* state 1: a new data unit, or nothing to send (return)
           fetch == ~waiting /\ s6 = 1 /\ hasData /\ iot.seq < MaxData
           idle == ~waiting /\ s6 = 1 /\ ~fetch
           data1 == IF fetch THEN iot.seq ELSE iot.data
           s1 == IF fetch THEN 2 ELSE s6
           \* state 2: a beacon, or keep waiting for one (return)
           beacon == ~waiting /\ ~idle /\ s1 = 2 /\ rx.beacon
           \* state 3: the backoff is drawn
           transmitTime3 == IF beacon THEN now + backoff ELSE iot.transmitTime
           s3 == IF beacon THEN 4 ELSE s1
           \* state 4: the backoff is over, or not yet (return)
           due == ~waiting /\ ~idle /\ s3 = 4 /\ transmitTime3 <= now
           \* state 5: the data unit goes to the radio
           s5 == IF due THEN (IF ok THEN 6 ELSE 2) ELSE s3
       IN  iot' = [state |-> s5, data |-> data1,
                   seq |-> IF fetch THEN iot.seq + 1 ELSE iot.seq,
                   transmitTime |-> transmitTime3,
                   tx |-> IF due THEN [kind |-> "data", ids |-> {data1}, ok |-> ok]
                          ELSE NoTx,
                   rx |-> rx,
                   sends |-> IF due /\ ok THEN (IF fetch THEN 1 ELSE iot.sends + 1)
                             ELSE IF fetch THEN 0 ELSE iot.sends]
    /\ macNow' = macNow + DeltaTime
    /\ UNCHANGED <<macPeer, gs, ttnc, mgrVars, radioVars, frameVars, restVars>>

\* ModelMACgs.Execute.  rx: the source of the first beacon received (or
\* None), the ids of the data units received, the sources of the control
\* packets received.  The field rx (the units received in the last Execute)
\* is kept for the properties.
Gs_Execute(rx, ok) ==
    /\ macPeer = "gs"
    /\ macNow <= MacEndTime
    /\ LET now == macNow
           received3 == gs.received \cup rx.data
           last3 == IF rx.data # {} THEN now ELSE gs.last
       IN  gs' =
             IF gs.state = 1
             THEN IF rx.beacon # None
                  THEN [gs EXCEPT !.state = 2, !.listening = rx.beacon, !.tx = NoTx, !.rx = rx]
                  ELSE [gs EXCEPT !.tx = NoTx, !.rx = rx]
             ELSE IF gs.state = 2
             THEN [gs EXCEPT !.state = 3, !.received = {}, !.last = now,
                             !.tx = [kind |-> "control", ids |-> {}, ok |-> ok], !.rx = rx]
             ELSE IF gs.listening \in rx.controls
             THEN [gs EXCEPT !.received = received3, !.last = now,
                             !.tx = [kind |-> "bulkack", ids |-> received3, ok |-> ok], !.rx = rx]
             ELSE IF now - last3 > GsTimeout
             THEN [gs EXCEPT !.state = 1, !.received = received3, !.last = last3,
                             !.tx = NoTx, !.rx = rx]
             ELSE [gs EXCEPT !.received = received3, !.last = last3, !.tx = NoTx, !.rx = rx]
    /\ macNow' = macNow + DeltaTime
    /\ UNCHANGED <<macPeer, iot, ttnc, mgrVars, radioVars, frameVars, restVars>>

\* a bulk-ack that empties the retry list
RemoveAcked_All(sent, ackIds) == <<>>

\* ModelMACTTnC.Execute, state 2: the units a bulk-ack lists leave __sentData
RemoveAcked(sent, ackIds) ==
    LET NotAcked(id) == id \notin ackIds IN SelectSeq(sent, NotAcked)

\* ModelMACTTnC.Execute.  rx: the number of packets the control packet
\* received asks for (0: no control packet), a bulk-ack or none and the ids
\* it lists; avail: the data units the store holds; jitter: the draw for the
\* next beacon time.  The fields rx (the units received in the last Execute)
\* and acked (the ids of the units a bulk-ack has taken off the retry list)
\* are kept for the properties.
Ttnc_Execute(rx, avail, jitter, ok) ==
    /\ macPeer = "ttnc"
    /\ macNow <= MacEndTime
    /\ LET now == macNow
           beaconDue == ttnc.state = 1 /\ now >= ttnc.nextBeacon
           control == ttnc.state = 2 /\ rx.wanted > 0
           acked == ttnc.state = 2 /\ ~control /\ rx.ack
           timedOut == ttnc.state = 2 /\ ~control /\ ~acked /\ now >= ttnc.nextBeacon
           \* the retry list first, then new units from the store
           need == IF rx.wanted > Len(ttnc.sent) THEN rx.wanted - Len(ttnc.sent) ELSE 0
           room == MaxData - ttnc.seq
           pulled == SetMin({need, avail, room})
           toSend2 == IF control
                      THEN ttnc.sent \o [k \in 1..pulled |-> ttnc.seq + k - 1]
                      ELSE ttnc.toSend
           sent2 == IF control THEN <<>>
                    ELSE IF acked THEN RemoveAcked(ttnc.sent, rx.ackIds)
                    ELSE ttnc.sent
           s2 == IF beaconDue THEN 2 ELSE IF control THEN 3
                 ELSE IF acked \/ timedOut THEN 1 ELSE ttnc.state
           \* state 3: a data unit, or the control packet that ends the service
           serving == s2 = 3
           sendData == serving /\ toSend2 # <<>>
           sendControl == serving /\ toSend2 = <<>>
       IN  ttnc' =
             [state |-> IF sendControl /\ ok THEN 2 ELSE s2,
              nextBeacon |-> IF beaconDue THEN now + BeaconInterval + jitter
                             ELSE ttnc.nextBeacon,
              toSend |-> IF sendData /\ ok THEN Tail(toSend2) ELSE toSend2,
              sent |-> IF sendData /\ ok THEN Append(sent2, Head(toSend2)) ELSE sent2,
              seq |-> IF control THEN ttnc.seq + pulled ELSE ttnc.seq,
              tx |-> IF beaconDue THEN [kind |-> "beacon", ids |-> {}, ok |-> ok]
                     ELSE IF sendData
                     THEN [kind |-> "data", ids |-> {Head(toSend2)}, ok |-> ok]
                     ELSE IF sendControl
                     THEN [kind |-> "control", ids |-> {}, ok |-> ok]
                     ELSE NoTx,
              rx |-> rx,
              acked |-> IF acked
                        THEN ttnc.acked \cup
                             ({ttnc.sent[k] : k \in 1..Len(ttnc.sent)} \cap rx.ackIds)
                        ELSE ttnc.acked]
    /\ macNow' = macNow + DeltaTime
    /\ UNCHANGED <<macPeer, iot, gs, mgrVars, radioVars, frameVars, restVars>>

\* the Executes of a node with ModelMACTTnC
TtncNext ==
    \E rx \in [wanted : 0..MaxData, ack : BOOLEAN, ackIds : SUBSET DataIds],
       ok \in BOOLEAN :
       \* the store is asked in state 2 only, the jitter drawn in state 1 only
       \E avail \in IF ttnc.state = 2 THEN 0..MaxData ELSE {0},
          jitter \in IF ttnc.state = 1 THEN 0..BeaconBackoff ELSE {0} :
         /\ rx.ackIds # {} => rx.ack
         /\ Ttnc_Execute(rx, avail, jitter, ok)

MacNext ==
    \/ \E rx \in [beacon : BOOLEAN, acks : SUBSET DataIds], hasData \in BOOLEAN,
          backoff \in 0..BackoffInterval, ok \in BOOLEAN :
            Iot_Execute(rx, hasData, backoff, ok)
    \/ \E rx \in [beacon : SatRadios \cup {None}, data : SUBSET DataIds,
                  controls : SUBSET SatRadios], ok \in BOOLEAN :
            Gs_Execute(rx, ok)
    \/ TtncNext

\* a node with one of the MAC models, before its first Execute
MacInit ==
    /\ MgrInit
    /\ RadioStart([n \in RadioNodes |-> PhyDefault])
    /\ FrameStart /\ RestIdle
    /\ \E peer \in {"iot", "gs", "ttnc"} :
       \E draw \in BeaconInterval..(BeaconInterval + BeaconBackoff) :
          MacStart(peer, SimStartTime + draw)

MacSpec == MacInit /\ [][MacNext]_vars

\* a satellite with ModelMACTTnC, before its first Execute
TtncInit ==
    /\ MgrInit
    /\ RadioStart([n \in RadioNodes |-> PhyDefault])
    /\ FrameStart /\ RestIdle
    /\ \E draw \in BeaconInterval..(BeaconInterval + BeaconBackoff) :
          MacStart("ttnc", SimStartTime + draw)

\* the satellite is executed in every step of the run, up to its end time
TtncFairSpec == TtncInit /\ [][TtncNext]_vars /\ WF_vars(TtncNext)

(***************************************************************************)
(* Part VI: the FOV index.  ModelFovTimeBased keeps, for every node, the   *)
(* rows (start, end, peer id, peer type) of its passes; compute_FOVs fills *)
(* the index with worker processes, load_FOVs installs a persisted one.    *)
(***************************************************************************)

\* ENodeType of a node: the first ground node is a ground station, the others
\* are IoT devices
NodeType(n) ==
    IF n \in FovSats THEN "SAT" ELSE IF n = NumSats THEN "GS" ELSE "IOTDEVICE"

NodeTypes == {"SAT", "GS", "IOTDEVICE"}

\* the lists of passes get_Passes may return for a pair: rise and set times,
\* in the order of time
PassWindows == {w \in (1..MaxPassTime) \X (1..MaxPassTime) : w[1] <= w[2]}
PassLists ==
    {<<>>} \cup {<<w>> : w \in PassWindows}
           \cup {vw \in PassWindows \X PassWindows : vw[1][2] < vw[2][1]}

\* Topology.get_NodesOfAType: the nodes of the types asked for, in the order
\* of the topology
RECURSIVE InOrder(_)
InOrder(ids) ==
    IF ids = {} THEN <<>>
    ELSE LET least == SetMin(ids) IN <<least>> \o InOrder(ids \ {least})

\* a sort that keeps the order of arrival
SortByStart_Unsorted(rows) == rows

\* find_Passes 254-255: _new[_new[:,0].argsort()], the rows by start time
RECURSIVE SortByStart(_)
SortByStart(rows) ==
    IF rows = <<>> THEN <<>>
    ELSE LET Least(k) == \A j \in 1..Len(rows) : rows[k][1] <= rows[j][1]
             first == SetMin({k \in 1..Len(rows) : Least(k)})
             rest == [k \in 1..(Len(rows) - 1) |->
                        IF k < first THEN rows[k] ELSE rows[k + 1]]
         IN  <<rows[first]>> \o SortByStart(rest)

\* a pass that is entered on the satellite's side only
AddPasses_OneSided(index, sat, ground) ==
    LET ps == passes[sat, ground]
        satPasses == [k \in 1..Len(ps) |-> <<ps[k][1], ps[k][2], ground, NodeType(ground)>>]
    IN  IF ps = <<>> THEN index
        ELSE [index EXCEPT ![sat] = SortByStart(@ \o satPasses)]

\* find_Passes 222-261, one pair: every pass gives a row to the satellite and
\* a row to the ground node, and both arrays are sorted again
AddPasses(index, sat, ground) ==
    LET ps == passes[sat, ground]
        satPasses == [k \in 1..Len(ps) |-> <<ps[k][1], ps[k][2], ground, NodeType(ground)>>]
        gsPasses == [k \in 1..Len(ps) |-> <<ps[k][1], ps[k][2], sat, NodeType(sat)>>]
    IN  IF ps = <<>> THEN index
        ELSE [index EXCEPT ![sat] = SortByStart(@ \o satPasses),
                           ![ground] = SortByStart(@ \o gsPasses)]

\* find_Passes called by a satellite whose pairs are all new: the loop over
\* the ground nodes
RECURSIVE find_Passes(_, _, _)
find_Passes(index, sat, nodesToCheck) ==
    IF nodesToCheck = <<>> THEN index
    ELSE find_Passes(AddPasses(index, sat, Head(nodesToCheck)), sat, Tail(nodesToCheck))

\* get_View 132-148: the peers of the rows that hold the time and the type
get_View(index, me, t, targetNodeTypes) ==
    LET InView(row) == row[1] <= t /\ row[2] >= t /\ row[4] \in targetNodeTypes
        fp == SelectSeq(index[me], InView)
    IN  [k \in 1..Len(fp) |-> fp[k][3]]

\* the subsystems of the step loop, which the FOV index does not touch
runVars == <<mgrVars, radioVars, frameVars, macVars>>

\* an install that leaves the flag as it was
set_GlobalDictionary_FlagKept(globalDictionary) ==
    [nodeToTimes |-> globalDictionary, preloaded |-> FALSE]

\* ModelFovTimeBased.__set_GlobalDictionary: the index is replaced and marked
\* preloaded
set_GlobalDictionary(globalDictionary) ==
    [nodeToTimes |-> globalDictionary, preloaded |-> TRUE]

\* compute_FOVs 339-350 followed by a sort of every node's rows
CombineDicts_Sorted(dicts) ==
    [n \in FovNodes |->
        LET RECURSIVE Rows(_)
            Rows(k) == IF k = 0 THEN <<>> ELSE Rows(k - 1) \o dicts[k][n]
        IN  SortByStart(Rows(Len(dicts)))]

\* compute_FOVs 339-350: the partial indexes are concatenated node by node,
\* in the order in which they were taken from the queue
CombineDicts(dicts) ==
    [n \in FovNodes |->
        LET RECURSIVE Rows(_)
            Rows(k) == IF k = 0 THEN <<>> ELSE Rows(k - 1) \o dicts[k][n]
        IN  Rows(Len(dicts))]

\* compute_FOVs 376-379: pickle.dump writes the dictionary, the keys that
\* have rows with their arrays
pickle_dump(d) ==
    [written |-> TRUE, items |-> {<<n, d[n]>> : n \in {x \in FovNodes : d[x] # <<>>}}]

\* load_FOVs 390-391: pickle.load rebuilds the dictionary from the file; a
\* key that is not in it reads as no rows
pickle_load(f) ==
    [n \in FovNodes |->
        IF \E it \in f.items : it[1] = n
        THEN (CHOOSE it \in f.items : it[1] = n)[2]
        ELSE <<>>]

\* compute_FOVs 289-313: the satellite ids are queued and the worker
\* processes started; each process begins with a copy of the index
Driver_Start ==
    /\ fovDriver.pc = "idle"
    /\ nodeQueue' = InOrder(FovSats)
    /\ fovWorker' = [w \in 1..FovWorkers |->
                        [pc |-> "get", last |-> -1, index |-> nodeToTimes]]
    /\ fovDriver' = [fovDriver EXCEPT !.pc = "alive"]
    /\ UNCHANGED <<passes, nodeToTimes, nodeToNode, preloaded, finder, fovQueue,
                   fovFile, freshRun, runVars, orchVars, powerVars, infoVars>>

\* __processMethod 237-268: a worker takes a satellite id and finds its
\* passes in its own copy of the index; an exception makes it exit(1)
Worker_FindPasses(w, raises) ==
    /\ fovWorker[w].pc = "get"
    /\ nodeQueue # <<>>
    /\ nodeQueue' = Tail(nodeQueue)
    /\ fovWorker' =
         [fovWorker EXCEPT ![w] =
            IF raises THEN [@ EXCEPT !.pc = "exit1"]
            ELSE [pc |-> "get", last |-> Head(nodeQueue),
                  index |-> find_Passes(@.index, Head(nodeQueue), InOrder(FovGrounds))]]
    /\ UNCHANGED <<passes, nodeToTimes, nodeToNode, preloaded, finder, fovQueue,
                   fovDriver, fovFile, freshRun, runVars, orchVars, powerVars, infoVars>>

\* __processMethod 262-287: the queue is empty; a worker that processed a
\* satellite puts its index on the output queue, and the process ends
Worker_Put(w) ==
    /\ fovWorker[w].pc = "get"
    /\ nodeQueue = <<>>
    /\ fovQueue' = IF fovWorker[w].last # -1
                   THEN Append(fovQueue, fovWorker[w].index) ELSE fovQueue
    /\ fovWorker' = [fovWorker EXCEPT ![w].pc = "exited"]
    /\ UNCHANGED <<passes, nodeToTimes, nodeToNode, preloaded, finder, nodeQueue,
                   fovDriver, fovFile, freshRun, runVars, orchVars, powerVars, infoVars>>

\* compute_FOVs 318-329: the loop ends when no process is alive, else the
\* driver sleeps and then drains the queue
Driver_CheckAlive ==
    /\ fovDriver.pc = "alive"
    /\ fovDriver' =
         [fovDriver EXCEPT !.pc =
            IF \A w \in 1..FovWorkers : fovWorker[w].pc \in {"exited", "exit1"}
            THEN "merge" ELSE "drain"]
    /\ UNCHANGED <<passes, nodeToTimes, nodeToNode, preloaded, finder, nodeQueue,
                   fovWorker, fovQueue, fovFile, freshRun, runVars, orchVars, powerVars, infoVars>>

\* compute_FOVs 330-332: while not _fovQueue.empty(): _processDicts.append
Driver_Drain ==
    /\ fovDriver.pc = "drain"
    /\ fovDriver' = [pc |-> "alive", processDicts |-> fovDriver.processDicts \o fovQueue]
    /\ fovQueue' = <<>>
    /\ UNCHANGED <<passes, nodeToTimes, nodeToNode, preloaded, finder, nodeQueue,
                   fovWorker, fovFile, freshRun, runVars, orchVars, powerVars, infoVars>>

\* compute_FOVs 335-379: the processes are joined, the partial indexes
\* combined and installed, and the result written when a path was given
Driver_Merge(outputPath) ==
    /\ fovDriver.pc = "merge"
    /\ LET outputFOV == CombineDicts(fovDriver.processDicts)
           set == set_GlobalDictionary(outputFOV)
       IN  /\ nodeToTimes' = set.nodeToTimes
           /\ preloaded' = set.preloaded
           /\ fovFile' = IF outputPath THEN pickle_dump(outputFOV) ELSE fovFile
    /\ fovDriver' = [fovDriver EXCEPT !.pc = "done"]
    /\ UNCHANGED <<passes, nodeToNode, finder, nodeQueue, fovWorker, fovQueue,
                   freshRun, runVars, orchVars, powerVars, infoVars>>

\* ManagerParallel.__load_FOVs in a run that has computed nothing
load_FOVs ==
    /\ fovFile.written
    /\ ~freshRun.preloaded
    /\ freshRun' = set_GlobalDictionary(pickle_load(fovFile))
    /\ UNCHANGED <<passes, nodeToTimes, nodeToNode, preloaded, finder, nodeQueue,
                   fovWorker, fovQueue, fovDriver, fovFile, runVars, orchVars, powerVars, infoVars>>

FovNext ==
    \/ Driver_Start
    \/ \E w \in 1..FovWorkers, raises \in BOOLEAN : Worker_FindPasses(w, raises)
    \/ \E w \in 1..FovWorkers : Worker_Put(w)
    \/ Driver_CheckAlive
    \/ Driver_Drain
    \/ \E outputPath \in BOOLEAN : Driver_Merge(outputPath)
    \/ load_FOVs

\* a topology with FOV models, before compute_FOVs
FovInit ==
    /\ MgrInit
    /\ RadioStart([n \in RadioNodes |-> PhyDefault])
    /\ FrameStart /\ NoMac /\ OrchStart /\ PowerIdle /\ InfoStart
    /\ \E p \in [FovSats \X FovGrounds -> PassLists] : FovStart(p, 0)

FovSpec == FovInit /\ [][FovNext]_vars

\* the nodes a node looks for, and their types: a satellite looks for the
\* ground nodes, a ground node for the satellites (the radio models' calls)
TargetNodes(n) == IF n \in FovSats THEN InOrder(FovGrounds) ELSE InOrder(FovSats)
TargetTypes(n) == IF n \in FovSats THEN {"GS", "IOTDEVICE"} ELSE {"SAT"}

\* get_View 128-129 and find_Passes 193-200, run by the thread that executes
\* node n while nothing is preloaded: the targets whose pair is not yet marked
find_Passes_Select(n) ==
    /\ ~preloaded
    /\ finder[n].pc = "idle"
    \* run_Sim 502-508: the nodes are submitted in the order of the topology
    \* to a pool of numOfThreads threads
    /\ \A other \in FovNodes : other < n => finder[other].pc # "idle"
    /\ Cardinality({other \in FovNodes : finder[other].pc \in {"mark", "add"}}) < MaxWorkers
    /\ LET NotYet(id) == \A k \in 1..Len(nodeToNode[n]) : nodeToNode[n][k] # id
       IN  finder' = [finder EXCEPT ![n].pc = "mark",
                                    ![n].toCheck = SelectSeq(TargetNodes(n), NotYet)]
    /\ UNCHANGED <<passes, nodeToTimes, nodeToNode, preloaded, nodeQueue, fovWorker,
                   fovQueue, fovDriver, fovFile, freshRun, runVars, orchVars, powerVars, infoVars>>

\* find_Passes 203-205: the next pair is marked as calculated on both sides
find_Passes_Mark(n) ==
    /\ finder[n].pc = "mark"
    /\ finder[n].toCheck # <<>>
    /\ LET node == Head(finder[n].toCheck)
       IN  nodeToNode' = [nodeToNode EXCEPT ![n] = Append(@, node),
                                            ![node] = Append(@, n)]
    /\ finder' = [finder EXCEPT ![n].pc = "add"]
    /\ UNCHANGED <<passes, nodeToTimes, preloaded, nodeQueue, fovWorker, fovQueue,
                   fovDriver, fovFile, freshRun, runVars, orchVars, powerVars, infoVars>>

\* find_Passes 207-261: the passes of the pair are computed and, under the
\* lock, entered on both sides
find_Passes_Add(n) ==
    /\ finder[n].pc = "add"
    /\ LET node == Head(finder[n].toCheck)
           sat == IF n \in FovSats THEN n ELSE node
           ground == IF n \in FovSats THEN node ELSE n
       IN  nodeToTimes' = AddPasses(nodeToTimes, sat, ground)
    /\ finder' = [finder EXCEPT ![n].pc = "mark", ![n].toCheck = Tail(@)]
    /\ UNCHANGED <<passes, nodeToNode, preloaded, nodeQueue, fovWorker, fovQueue,
                   fovDriver, fovFile, freshRun, runVars, orchVars, powerVars, infoVars>>

\* get_View 132-148: after find_Passes the node's rows are filtered
get_View_Return(n) ==
    /\ finder[n].pc = "mark"
    /\ finder[n].toCheck = <<>>
    /\ finder' = [finder EXCEPT
                    ![n].pc = "done",
                    ![n].view = get_View(nodeToTimes, n, finder[n].at, TargetTypes(n))]
    /\ UNCHANGED <<passes, nodeToTimes, nodeToNode, preloaded, nodeQueue, fovWorker,
                   fovQueue, fovDriver, fovFile, freshRun, runVars, orchVars, powerVars, infoVars>>

ViewNext ==
    \/ \E n \in FovNodes : find_Passes_Select(n)
    \/ \E n \in FovNodes : find_Passes_Mark(n)
    \/ \E n \in FovNodes : find_Passes_Add(n)
    \/ \E n \in FovNodes : get_View_Return(n)

\* the pass lists of the runs without precompute: no pass, or one that lasts
\* the whole horizon
ViewPassLists == {<<>>, <<<<1, MaxPassTime>>>>}

\* a step of a run without precompute: the pool's threads execute the nodes,
\* whose radio models ask for the view at the time of the step
ViewInit ==
    /\ MgrInit
    /\ RadioStart([n \in RadioNodes |-> PhyDefault])
    /\ FrameStart /\ NoMac /\ OrchStart /\ PowerIdle /\ InfoStart
    /\ \E p \in [FovSats \X FovGrounds -> ViewPassLists], t \in 0..(MaxPassTime + 1) :
          FovStart(p, t)

ViewSpec == ViewInit /\ [][ViewNext]_vars

(***************************************************************************)
(* Part VII: the Orchestrator.  create_SimEnv creates the nodes of the     *)
(* configuration one by one and gives each its models with _add_Models.    *)
(***************************************************************************)

\* the model classes of the configurations, in the order of a full
\* satellite stack, and the node classes
ModelStack == <<"ModelOrbit", "ModelPower", "ModelCompute", "ModelFovTimeBased",
                "ModelImagingRadio", "ModelEdgeCompute">>
ModelNames == {ModelStack[k] : k \in 1..Len(ModelStack)}
NodeClasses == {"SatelliteBasic", "GSBasic"}

\* the class attribute __supportednodeclasses of each model (empty: any node)
supportedNodeClasses(iName) ==
    IF iName \in {"ModelOrbit", "ModelCompute", "ModelEdgeCompute"}
    THEN {"SatelliteBasic"} ELSE {}

\* the class attribute __dependencies of each model: a list of slots, each a
\* list of the inames that fill it
dependencyModelClasses(iName) ==
    CASE iName = "ModelPower" ->
            <<{"ModelFixedOrbit", "ModelOrbit", "ModelOrbitOneFullUpdate"}>>
      [] iName = "ModelCompute" -> <<{"ModelPower"}>>
      [] iName = "ModelImagingRadio" -> <<{"ModelHelperFoV", "ModelFovTimeBased"}>>
      [] iName = "ModelEdgeCompute" ->
            <<{"ModelPower"}, {"ModelCompute"}, {"ModelImagingRadio"}>>
      [] OTHER -> <<>>

\* the model lists a node's configuration may give: every list of up to
\* MaxModels models, the full stack, and the full stack less one model
ModelLists ==
    LET Less(k) == [j \in 1..(Len(ModelStack) - 1) |->
                       IF j < k THEN ModelStack[j] ELSE ModelStack[j + 1]]
    IN  UNION {[1..len -> ModelNames] : len \in 0..MaxModels}
          \cup {ModelStack} \cup {Less(k) : k \in 1..Len(ModelStack)}

\* a duplicate test that lets every model through
IsDuplicate_Never(modelNameSet, iName) == FALSE

\* _add_Models 155-156: the model's iname is already among the good ones
IsDuplicate(modelNameSet, iName) == modelNameSet # {} /\ iName \in modelNameSet

\* a slot test that is content with the first slot of a model
DependencyResolved_FirstSlot(tempModelList) ==
    \A k \in 1..Len(tempModelList) :
        LET slots == dependencyModelClasses(tempModelList[k])
        IN  slots # <<>> =>
               \E j \in 1..Len(tempModelList) : tempModelList[j] \in slots[1]

\* _add_Models 187-213: every slot of every listed model is filled by a
\* model of the list
DependencyResolved(tempModelList) ==
    \A k \in 1..Len(tempModelList) :
        LET slots == dependencyModelClasses(tempModelList[k])
        IN  \A s \in 1..Len(slots) :
               \E j \in 1..Len(tempModelList) : tempModelList[j] \in slots[s]

\* a cache that is hit by any resolved set that contains the names
ResolvedEarlier_Superset(resolvedSets, modelNameSet) ==
    \E k \in 1..Len(resolvedSets) : modelNameSet \subseteq resolvedSets[k]

\* _add_Models 173-177: this group of models was resolved before
ResolvedEarlier(resolvedSets, modelNameSet) ==
    \E k \in 1..Len(resolvedSets) : modelNameSet = resolvedSets[k]

\* Orchestrator._add_Models for a node of class nodeClass and the model list
\* modelDetails: whether it raises, the models it adds, the cache afterwards
add_Models(nodeClass, modelDetails, resolvedSets) ==
    LET Supported(iName) ==
            supportedNodeClasses(iName) = {} \/ nodeClass \in supportedNodeClasses(iName)
        RECURSIVE Good(_)
        \* the loop 128-166 over the first k entries: the good models so far
        Good(k) ==
            IF k = 0 THEN <<>>
            ELSE LET before == Good(k - 1)
                     names == {before[j] : j \in 1..Len(before)}
                 IN  IF IsDuplicate(names, modelDetails[k]) THEN before
                     ELSE Append(before, modelDetails[k])
        tempModelList == Good(Len(modelDetails))
        modelNameSet == {tempModelList[j] : j \in 1..Len(tempModelList)}
        unsupported == \E k \in 1..Len(modelDetails) : ~Supported(modelDetails[k])
        cached == ResolvedEarlier(resolvedSets, modelNameSet)
        mismatch == ~cached /\ ~DependencyResolved(tempModelList)
    IN  IF unsupported \/ mismatch
        THEN [raised |-> TRUE, models |-> <<>>, resolvedSets |-> resolvedSets]
        ELSE [raised |-> FALSE, models |-> tempModelList,
              resolvedSets |-> IF ~cached /\ Cardinality(modelNameSet) > 1
                               THEN Append(resolvedSets, modelNameSet)
                               ELSE resolvedSets]

\* create_SimEnv 78-108: the next node of the configuration is created and
\* given its models; an exception of _add_Models ends create_SimEnv
create_Node(nodeClass, modelDetails) ==
    /\ Len(nodeModels) < NumOrchNodes
    /\ ~lastAdd.raised
    /\ LET add == add_Models(nodeClass, modelDetails, dependencyResolvedSets)
       IN  /\ nodeModels' = Append(nodeModels, add.models)
           /\ dependencyResolvedSets' = add.resolvedSets
           /\ lastAdd' = [nodeClass |-> nodeClass, details |-> modelDetails,
                          raised |-> add.raised]
    /\ UNCHANGED <<runVars, fovVars, powerVars, infoVars>>

OrchNext ==
    \E nodeClass \in NodeClasses, modelDetails \in ModelLists :
        create_Node(nodeClass, modelDetails)

OrchInit ==
    /\ MgrInit
    /\ RadioStart([n \in RadioNodes |-> PhyDefault])
    /\ FrameStart /\ NoMac /\ FovIdle /\ PowerIdle /\ InfoStart
    /\ OrchStart

OrchSpec == OrchInit /\ [][OrchNext]_vars

(***************************************************************************)
(* Part VIII: power.  A node with ModelPower and a radio model; the radio  *)
(* asks has_Energy before it sends and the radio device burns the energy   *)
(* of the transmission with consume_Energy.                                *)
(***************************************************************************)

\* MAX_CAPACITY of the bank
MaxCharge == MinCharge + MaxEps

\* ModelPower.__has_Energy for one tag: required is the tag's entry of
\* __requiredEnergy or None; a tag without an entry is granted while the
\* charge is above the minimum, and gets the entry 0
has_Energy(required, charge) ==
    IF required = None
    THEN [granted |-> charge > MinCharge, required |-> 0]
    ELSE [granted |-> charge >= required, required |-> required]

\* a consume_Energy that takes the energy whatever the charge
consume_Energy_Unchecked(charge, energy) ==
    [ret |-> TRUE, charge |-> charge - energy, consumed |-> energy]

\* ModelPower.__consume_Energy: the energy is taken when the charge stays at
\* or above the minimum, else nothing is taken
consume_Energy(charge, energy) ==
    IF charge >= energy + MinCharge
    THEN [ret |-> TRUE, charge |-> charge - energy, consumed |-> energy]
    ELSE [ret |-> FALSE, charge |-> charge, consumed |-> 0]

\* the model of the node that runs at position k of Node.Execute
ModelAt(k) ==
    IF powerCfg.radioFirst THEN <<"radio", "power">>[k] ELSE <<"power", "radio">>[k]

\* Node.Execute 145-149: the next model, or the next step after the last one
PcAfter == IF powerPc.next = 2 THEN [step |-> powerPc.step + 1, next |-> 1]
           ELSE [powerPc EXCEPT !.next = 2]

\* the always-on tasks of ModelPower.Execute, each paid for with
\* consume_Energy in the order of the list; last is the latest call
RECURSIVE ConsumeAlwaysOn(_, _, _)
ConsumeAlwaysOn(tasks, charge, last) ==
    IF tasks = <<>> THEN [charge |-> charge, last |-> last]
    ELSE LET c == consume_Energy(charge, Head(tasks))
         IN  ConsumeAlwaysOn(Tail(tasks), c.charge,
                             [energy |-> Head(tasks), before |-> charge, after |-> c.charge,
                              ret |-> c.ret])

\* ModelPower.Execute: the bank is charged in sunlight up to MAX_CAPACITY,
\* the always-on tasks are paid for, the PowerStats line is written and the
\* statistics are reset
Power_Execute(inSunlight) ==
    /\ powerPc.step < NumPowerSteps
    /\ ModelAt(powerPc.next) = "power"
    /\ LET charged == IF inSunlight THEN bank.currentCharge + SolarCharge
                      ELSE bank.currentCharge
           capped == IF charged < MaxCharge THEN charged ELSE MaxCharge
           on == ConsumeAlwaysOn(powerCfg.alwaysOn, capped, lastConsume)
       IN  /\ bank' = [bank EXCEPT
                         !.currentCharge = on.charge,
                         !.requested = FALSE, !.granted = "None", !.consumed = 0]
           /\ lastConsume' = on.last
    /\ lastLine' = [step |-> powerPc.step, requested |-> bank.requested,
                    granted |-> bank.granted, consumed |-> bank.consumed]
    /\ powerPc' = PcAfter
    /\ UNCHANGED <<powerCfg, powerRadio, txFirst, runVars, fovVars, orchVars, infoVars>>

\* ModelGenericRadio.Execute with _send_Packet and the device's send: the
\* receiver is paid for, then the packet at the head of the queue, if any, is
\* sent when has_Energy grants TXRADIO; sendOk is the outcome of the
\* device's send, which burns the energy of the transmission
Radio_Execute(hasPacket, sendOk) ==
    /\ powerPc.step < NumPowerSteps
    /\ ModelAt(powerPc.next) = "radio"
    /\ LET rx == has_Energy(bank.requiredRx, bank.currentCharge)
           isRXOn == powerRadio.isRXOn /\ rx.granted
           afterRx == IF isRXOn
                      THEN consume_Energy(bank.currentCharge, powerCfg.rxEnergy).charge
                      ELSE bank.currentCharge
           tx == has_Energy(bank.requiredTx, afterRx)
           sent == hasPacket /\ tx.granted /\ sendOk
           burn == consume_Energy(afterRx, powerCfg.txEnergy)
       IN  /\ lastConsume' =
                  IF sent THEN [energy |-> powerCfg.txEnergy, before |-> afterRx,
                                after |-> burn.charge, ret |-> burn.ret]
                  ELSE IF isRXOn
                  THEN [energy |-> powerCfg.rxEnergy, before |-> bank.currentCharge,
                        after |-> afterRx,
                        ret |-> consume_Energy(bank.currentCharge, powerCfg.rxEnergy).ret]
                  ELSE lastConsume
           /\ bank' = [bank EXCEPT
                         !.requiredRx = rx.required,
                         !.requiredTx = IF hasPacket THEN tx.required ELSE @,
                         !.requested = IF hasPacket THEN TRUE ELSE @,
                         !.granted = IF ~hasPacket THEN @
                                     ELSE IF tx.granted THEN "True" ELSE "False",
                         !.currentCharge = IF sent THEN burn.charge ELSE afterRx,
                         !.consumed = IF sent THEN @ + burn.consumed ELSE @]
           /\ powerRadio' = [isRXOn |-> isRXOn,
                             lastSend |-> IF ~hasPacket THEN "none"
                                          ELSE IF ~tx.granted THEN "noPower"
                                          ELSE IF sendOk THEN "sent" ELSE "attemptedToSend"]
           /\ txFirst' = IF hasPacket /\ txFirst.step = None
                         THEN [step |-> powerPc.step,
                               short |-> afterRx - MinCharge < powerCfg.txEnergy,
                               sent |-> sent]
                         ELSE txFirst
    /\ powerPc' = PcAfter
    /\ UNCHANGED <<powerCfg, lastLine, runVars, fovVars, orchVars, infoVars>>

\* call_APIs("consume_Energy", _energy = energy) by another model of the
\* node or by the caller of the run, between two models' Execute
Api_consume_Energy(energy) ==
    /\ powerPc.step < NumPowerSteps
    /\ LET c == consume_Energy(bank.currentCharge, energy)
       IN  /\ bank' = [bank EXCEPT !.currentCharge = c.charge]
           /\ lastConsume' = [energy |-> energy, before |-> bank.currentCharge,
                             after |-> c.charge, ret |-> c.ret]
    /\ UNCHANGED <<powerCfg, powerRadio, powerPc, lastLine, txFirst, runVars, fovVars, orchVars, infoVars>>

PowerNext ==
    \/ \E inSunlight \in BOOLEAN : Power_Execute(inSunlight)
    \/ \E hasPacket \in BOOLEAN, sendOk \in BOOLEAN : Radio_Execute(hasPacket, sendOk)
    \/ \E energy \in 0..MaxTxEnergy : Api_consume_Energy(energy)

\* the configurations of the node: the initial charge, the energy of one
\* transmission and of one step of listening, the required energy of TXRADIO
\* (None: no entry), the energy per step of each always-on task, and the
\* order of the two models in the node
PowerInit ==
    /\ MgrInit
    /\ RadioStart([n \in RadioNodes |-> PhyDefault])
    /\ FrameStart /\ NoMac /\ FovIdle /\ OrchStart /\ InfoStart
    /\ \E initial \in MinCharge..MaxCharge, txEnergy \in 1..MaxTxEnergy,
          rxEnergy \in 0..1, requiredTx \in {None} \cup 0..(MaxCharge + 1),
          alwaysOn \in {<<>>, <<1>>, <<MaxTxEnergy, 1>>}, radioFirst \in BOOLEAN :
          PowerStart([initial |-> initial, txEnergy |-> txEnergy, rxEnergy |-> rxEnergy,
                      alwaysOn |-> alwaysOn,
                      requiredTx |-> requiredTx, radioFirst |-> radioFirst])

PowerSpec == PowerInit /\ [][PowerNext]_vars

(***************************************************************************)
(* Part IX: the Runtime API get_NodeInfo.  Time and Location are mutable    *)
(* Python objects, so the node's fields and the values handed to the       *)
(* caller are object ids into a heap.                                      *)
(***************************************************************************)

\* the object ids not yet in use
FreeObjects == {o \in 1..MaxObjects : heap[o] = None}

\* Time.copy: a new Time object that holds the same datetime
Time_copy(o, new) == [heap EXCEPT ![new] = heap[o]]

\* GSBasic.get_Position: the node's __position object itself
get_Position == infoNode.position

\* ManagerParallel.__get_NodeInfo for the info types "time" and "position"
get_NodeInfo(infoType) ==
    /\ IF infoType = "time"
       THEN \E new \in FreeObjects :
               /\ \A o \in FreeObjects : new <= o
               /\ heap' = Time_copy(infoNode.timestamp, new)
               /\ held' = held \cup {[infoType |-> infoType, ref |-> new]}
       ELSE /\ heap' = heap
            /\ held' = held \cup {[infoType |-> infoType, ref |-> get_Position]}
    /\ infoOp' = "get"
    /\ UNCHANGED <<infoNode, runVars, fovVars, orchVars, powerVars>>

\* the caller changes an object it got from get_NodeInfo: Time.add_seconds
\* or an assignment to the x, y, z of a Location
Caller_Mutate(h, v) ==
    /\ h \in held
    /\ v # heap[h.ref]
    /\ heap' = [heap EXCEPT ![h.ref] = v]
    /\ infoOp' = "mutate"
    /\ UNCHANGED <<infoNode, held, runVars, fovVars, orchVars, powerVars>>

\* GSBasic.Execute: the node's Time object is advanced in place
Info_Execute ==
    /\ heap[infoNode.timestamp] < MaxInfoValue
    /\ heap' = [heap EXCEPT ![infoNode.timestamp] = @ + 1]
    /\ infoOp' = "execute"
    /\ UNCHANGED <<infoNode, held, runVars, fovVars, orchVars, powerVars>>

InfoNext ==
    \/ \E infoType \in {"time", "position"} : get_NodeInfo(infoType)
    \/ \E h \in held, v \in 0..MaxInfoValue : Caller_Mutate(h, v)
    \/ Info_Execute

InfoInit ==
    /\ MgrInit
    /\ RadioStart([n \in RadioNodes |-> PhyDefault])
    /\ FrameStart /\ NoMac /\ FovIdle /\ OrchStart /\ PowerIdle
    /\ InfoStart

InfoSpec == InfoInit /\ [][InfoNext]_vars

(***************************************************************************)
(* Properties of the step loop and the pause gate                          *)
(***************************************************************************)

GatePcs == {"setstop", "wait", "clear"}
StepPcs == {"dispatch", "submit", "results", "shutdown_ok", "shutdown_exc",
            "serial", "incr", "raised"}

\* C1: the steps are in lockstep. No node's Execute for step i+1 starts before
\* every node's Execute for step i has returned (the (i+2)-th call on n needs
\* i+1 returns of every m), the Executes that have started belong to the
\* manager's current step or an earlier one, and the step counter has only
\* counted steps whose Execute has returned on every node.
C1_Lockstep ==
    /\ \A n, m \in Nodes : started[n] <= returned[m] + 1
    /\ \A n \in Nodes : started[n] <= currentStep + 1
    /\ \A n \in Nodes : returned[n] >= currentStep

\* C1 witness: the pool runs two nodes of the last step at the same time
C1_Witness ==
    /\ numOfThreads > 1
    /\ currentStep = NumOfSteps - 1
    /\ Cardinality(Running) >= 2

\* C2 as stated: immediately after step i completes (every Execute of the step
\* has returned, the counter still says i) every node's timestamp is t0 + i*delta.
C2_TimestampAsStated ==
    pc = "incr" => \A n \in Nodes : timestamp[n] = SimStartTime + currentStep * DeltaTime

\* C2 amended: a node's timestamp is t0 + i*delta from the start of step i
\* until its Execute of step i returns, and t0 + (i+1)*delta from then on: when
\* step i completes every node's timestamp is t0 + (i+1)*delta.
C2_TimestampAfterStep ==
    /\ \A n \in Nodes :
          timestamp[n] = SimStartTime
                         + (currentStep + (IF future[n] = "done" THEN 1 ELSE 0)) * DeltaTime
    /\ pc = "incr" =>
          \A n \in Nodes : timestamp[n] = SimStartTime + (currentStep + 1) * DeltaTime

\* C2 witness: the last step of the run has just completed
C2_Witness == pc = "incr" /\ currentStep = NumOfSteps - 1

\* C3: when the pause is armed for step i as the gate of step i is read, the
\* run signals the stopping event and waits before any node executes step i;
\* it goes on to execute step i only after the stopping event was set for
\* this step and a resume() call has set the resuming event.
C3_PauseBlocksStep ==
    (armedAtGate /\ pc # "gate2") =>
        \/ /\ pc \in {"setstop", "wait"}
           /\ \A n \in Nodes : started[n] = currentStep /\ future[n] = "none"
           /\ pc = "wait" => (stoppingCondition \/ apiPc = "resume" \/ resumeCalled)
           /\ pc = "wait" => firedStep = currentStep
        \/ /\ pc \in {"clear"} \cup StepPcs
           /\ firedStep = currentStep
           /\ resumeCalled

\* C3 witness: a pause armed for step 0 holds the run before any Execute
C3_Witness ==
    /\ pc = "wait"
    /\ currentStep = 0
    /\ armedAtGate
    /\ stoppingCondition
    /\ ~resumeCalled
    /\ \A n \in Nodes : started[n] = 0

\* C4: a resume() that completes while the run is blocked at the gate of step i
\* releases it: the run goes on until it ends (after step N-1, or by the
\* exception of an Execute) or blocks at the gate of a later step, and the gate
\* fires again only for a pause_AtTime call newer than the one it fired for last.
C4_ResumeReleases ==
    /\ \A i \in 0..(NumOfSteps - 1) :
          (pc = "wait" /\ currentStep = i /\ resumedAt = i)
             ~> (pc \in {"done", "raised"} \/ (pc = "wait" /\ currentStep > i))
    /\ [][(pc = "gate2" /\ pc' = "setstop") => Len(pauseLog) > firedCall]_vars

\* C4 witness: a run that was paused once, resumed, and ran to its end
C4_Witness ==
    /\ pc = "done"
    /\ firedStep # None
    /\ resumedAt = firedStep
    /\ Len(pauseLog) = 1

\* C5: the run pauses only at the step of the pause_AtTime call that was the
\* most recent one when the gate was read, whatever steps earlier calls gave.
C5_MostRecentPauseOnly ==
    pc \in GatePcs =>
        /\ firedCall >= 1
        /\ firedCall <= Len(pauseLog)
        /\ pauseLog[firedCall] = currentStep

\* C5 witness: two calls before any pause fired; the run has passed the step
\* of the first one and is paused at the step of the second
C5_Witness ==
    /\ pc = "wait"
    /\ firedCall = 2
    /\ pauseLog[1] < pauseLog[2]
    /\ currentStep = pauseLog[2]
    /\ ~resumeCalled
    /\ ~resumingCondition

\* C6: pause_AtTime returns None and leaves the armed pause as it is when its
\* step is smaller than the current step it read; otherwise it arms the pause
\* for its step and returns the stopping event.
C6_PauseReturn ==
    [][(apiPc = "pause" /\ apiPc' = "idle") =>
          IF apiArg < apiCur
          THEN apiRet' = "null" /\ timeStepToStop' = timeStepToStop
          ELSE apiRet' = "token" /\ timeStepToStop' = apiArg]_vars

\* C6 witness: a call for a step of the past returned None with a pause armed
C6_Witness ==
    /\ apiRet = "null"
    /\ apiPc = "idle"
    /\ timeStepToStop # None
    /\ timeStepToStop >= currentStep

\* C7 as stated: with a pause armed for step N the run never blocks at the gate
\* for it, and the caller is never told (the stopping event it waits on is never
\* set) that the run is paused at step N.
C7_PauseAtNAsStated ==
    [][(timeStepToStop = NumOfSteps /\ currentStep = NumOfSteps) =>
          /\ pc' \notin GatePcs
          /\ stoppingCondition' => stoppingCondition]_vars

\* C7 amended: the gate never fires for step N: the run neither reads the gate
\* nor blocks at step N and never sets the stopping event for step N at the
\* gate. (The stopping event is set once more when the run ends.)
C7_GateNeverFiresAtN ==
    /\ ~(pc \in GatePcs \cup {"gate1", "gate2"} /\ currentStep >= NumOfSteps)
    /\ firedStep # NumOfSteps
    /\ currentStep <= NumOfSteps

\* C7 witness: the run has ended with the pause armed for step N
C7_Witness ==
    /\ pc = "done"
    /\ timeStepToStop = NumOfSteps
    /\ firedStep = None

\* C8: once an Execute of step i has raised, no Execute of step i+1 is ever
\* started and the step counter stays at i, and run_Sim raises to its caller.
C8_RaiseAborts ==
    /\ []((\E n \in Nodes : future[n] = "raised") =>
             /\ pc \in {"submit", "results", "shutdown_exc", "serial", "raised"}
             /\ \A m \in Nodes : started[m] <= currentStep + 1)
    /\ (\E n \in Nodes : future[n] = "raised") ~> (pc = "raised")
    /\ [](pc = "raised" => \E n \in Nodes : future[n] = "raised")

\* C8 witness: run_Sim has raised out of the pool after another node's Execute
\* of the same step returned
C8_Witness ==
    /\ pc = "raised"
    /\ numOfThreads > 1
    /\ currentStep > 0
    /\ \E n \in Nodes : future[n] = "done"
(***************************************************************************)
(* Properties of the radios                                                *)
(***************************************************************************)

\* node n takes a step of its Execute
ExecutesStep(n) == radioPc[n] \in {"update", "send"} /\ radioPc'[n] # radioPc[n]

\* C9 as stated: while a node executes, every piece of state it touches is its
\* own: a step of the Execute of node n leaves the radio state of every other
\* node (its pending frames, transmission windows, queues, log and timestamp)
\* as it was.
C9_ExecuteIsNodeLocal ==
    [][\A n \in RadioNodes :
          ExecutesStep(n) =>
              \A m \in RadioNodes \ {n} :
                  /\ temporaryReceivedFrames'[m] = temporaryReceivedFrames[m]
                  /\ transmittingTimes'[m] = transmittingTimes[m]
                  /\ txQueue'[m] = txQueue[m]
                  /\ rxQueue'[m] = rxQueue[m]
                  /\ rxLog'[m] = rxLog[m]
                  /\ radioTime'[m] = radioTime[m]]_vars

\* C10: every frame handed to the receive callback was handed over at a time
\* of the receiver at or after the frame's reception-end time, which is the
\* send instant plus the propagation delay plus the time-on-air, and with an
\* empty list of collided ids.
C10_DeliveredFramesAreComplete ==
    \A n \in RadioNodes : \A k \in 1..Len(rxQueue[n]) :
        LET f == rxQueue[n][k].frame
            at == rxQueue[n][k].at
        IN  /\ at >= f.endRx
            /\ f.endRx = f.startTx + (f.startRx - f.startTx) + TimeOnAir(f.size)
            /\ f.startRx >= f.startTx
            /\ f.endTx = f.startTx + TimeOnAir(f.size)
            /\ f.collidedIDs = {}

\* C10 witness: a radio was handed a frame that took longer than a step to
\* arrive, and has dropped another frame for a collision
C10_Witness ==
    \E n \in RadioNodes :
        /\ \E k \in 1..Len(rxQueue[n]) :
              /\ rxQueue[n][k].frame.startRx > rxQueue[n][k].frame.startTx
              /\ rxQueue[n][k].frame.endRx > rxQueue[n][k].frame.startTx + DeltaTime
        /\ \E e \in rxLog[n] : e.why = "collision"

\* C11: half-duplex. No frame a radio was handed has a reception window that
\* overlaps a transmission window recorded on that radio (the windows share
\* more than an end point), wherever the two windows lie.
C11_HalfDuplex ==
    \A n \in RadioNodes : \A k \in 1..Len(rxQueue[n]) :
        \A j \in 1..Len(transmittingTimes[n]) :
            ~TimeOverlap(rxQueue[n][k].frame.startRx, rxQueue[n][k].frame.endRx,
                         transmittingTimes[n][j][1], transmittingTimes[n][j][2])

\* C12: any two transmission windows recorded on the same radio device are
\* equal (the copies of one frame for the devices of the channel) or disjoint
\* (they share at most an end point).
C12_WindowsEqualOrDisjoint ==
    \A n \in RadioNodes : \A i, j \in 1..Len(transmittingTimes[n]) :
        \/ transmittingTimes[n][i] = transmittingTimes[n][j]
        \/ ~TimeOverlap(transmittingTimes[n][i][1], transmittingTimes[n][i][2],
                        transmittingTimes[n][j][1], transmittingTimes[n][j][2])

\* C12 witness: in a step after the first one a radio has sent a frame to two
\* devices and holds the two windows of that frame
C12_Witness ==
    \E n \in RadioNodes :
        /\ Len(transmittingTimes[n]) >= 2
        /\ radioStep > 0
        /\ transmittingTimes[n][Len(transmittingTimes[n])][1] = radioTime[n] - DeltaTime
        /\ radioPc[n] = "done"

\* two frames whose reception windows overlap and whose RSSI differ by less
\* than 6 dB
CloseOverlap(f, g) ==
    /\ f.startRx < g.endRx /\ g.startRx < f.endRx
    /\ f.rssi - g.rssi < 6 /\ g.rssi - f.rssi < 6

\* frame f is among the frames handed to the receive callback of node n
Handed(n, f) ==
    \E k \in 1..Len(rxQueue[n]) :
        rxQueue[n][k].frame.id = f.id /\ rxQueue[n][k].frame.source = f.source

\* C13: of two frames pending at the same receiver with overlapping reception
\* windows and RSSI less than 6 dB apart, the comparison marks both, each with
\* the other's id; an update_Timestep of the receiver hands over neither, and
\* the one it leaves pending carries the id of the one it processed; no frame
\* is ever handed over that so overlaps a pending or another handed frame.
C13_CloseFramesCollide ==
    /\ [](\A n \in RadioNodes : \A i, j \in 1..Len(temporaryReceivedFrames[n]) :
            LET f == temporaryReceivedFrames[n][i]
                g == temporaryReceivedFrames[n][j]
            IN  (i # j /\ CloseOverlap(f, g)) =>
                    /\ CollidePair(f, g) = <<AddCollided(f, g.id), AddCollided(g, f.id)>>
                    /\ ~Handed(n, f))
    /\ [](\A n \in RadioNodes : \A i, j \in 1..Len(rxQueue[n]) :
            i # j => ~CloseOverlap(rxQueue[n][i].frame, rxQueue[n][j].frame))
    /\ [][\A n \in RadioNodes : \A i, j \in 1..Len(temporaryReceivedFrames[n]) :
            LET f == temporaryReceivedFrames[n][i]
                g == temporaryReceivedFrames[n][j]
            IN  (i # j /\ CloseOverlap(f, g) /\ radioPc[n] = "update" /\ radioPc'[n] = "send") =>
                    /\ ~Handed(n, f)'
                    /\ ~Handed(n, g)'
                    /\ FrameReady(f, radioTime[n]) =>
                          /\ LogEntry(f, "collision", radioTime[n]) \in rxLog'[n]
                          /\ \A k \in 1..Len(temporaryReceivedFrames'[n]) :
                                temporaryReceivedFrames'[n][k].id = g.id =>
                                    f.id \in temporaryReceivedFrames'[n][k].collidedIDs]_vars

\* C13 witness: the hidden-terminal case. Two ground radios of equal strength
\* sent to the satellite in the same step; the satellite has logged both
\* frames as collided and its rx queue is empty.
C13_Witness ==
    \E n \in SatNodes :
        /\ rxQueue[n] = <<>>
        /\ \E a, b \in rxLog[n] :
              /\ a.why = "collision" /\ b.why = "collision"
              /\ a.source # b.source
        /\ \A m \in RadioNodes : phySetup[m] = PhyDefault

\* C14: the capture rule. Of two pending frames with overlapping reception
\* windows and RSSI at least 6 dB apart, the comparison marks the weaker with
\* the stronger's id; it marks the stronger too, with the weaker's id, exactly
\* when the stronger did not arrive first and the weaker had been receiving
\* for longer than the lock-on time when the stronger arrived.
C14_CaptureRule ==
    \A n \in RadioNodes : \A i, j \in 1..Len(temporaryReceivedFrames[n]) :
        LET f == temporaryReceivedFrames[n][i]
            g == temporaryReceivedFrames[n][j]
            s == IF f.rssi > g.rssi THEN f ELSE g
            w == IF f.rssi > g.rssi THEN g ELSE f
            both == /\ ~(s.startRx < w.startRx)
                    /\ s.startRx - w.startRx > LockTicks
            marked(x) == IF x.id = w.id THEN AddCollided(w, s.id)
                         ELSE IF both THEN AddCollided(s, w.id) ELSE s
        IN  (/\ i # j
             /\ f.startRx < g.endRx /\ g.startRx < f.endRx
             /\ (f.rssi - g.rssi >= 6 \/ g.rssi - f.rssi >= 6))
            => CollidePair(f, g) = <<marked(f), marked(g)>>

\* the reception windows of two frames intersect (they share more than an
\* end point)
Intersect(f, g) == f.startRx < g.endRx /\ g.startRx < f.endRx

\* C15: imaging radio. Of two frames pending at the same receiver whose
\* reception windows intersect, the comparison marks both, each with the
\* other's id, whatever their signal strength; and no two frames handed to
\* the receive callback of one receiver have intersecting reception windows.
C15_ImagingOverlapCollides ==
    /\ \A n \in RadioNodes : \A i, j \in 1..Len(temporaryReceivedFrames[n]) :
          LET f == temporaryReceivedFrames[n][i]
              g == temporaryReceivedFrames[n][j]
          IN  (i # j /\ Intersect(f, g)) =>
                  ImagingCollidePair(f, g) = <<AddCollided(f, g.id), AddCollided(g, f.id)>>
    /\ \A n \in RadioNodes : \A i, j \in 1..Len(rxQueue[n]) :
          i # j => ~Intersect(rxQueue[n][i].frame, rxQueue[n][j].frame)

\* C16: a send of node n (the packet at the head of its tx queue) whose size
\* exceeds the MTU, or issued while a recorded transmission window of n holds
\* the current time, or with no channel, returns false, adds no frame to the
\* pending frames of any radio and leaves the transmission windows as they
\* were; a frame of exactly MTU bytes on an idle radio with a channel is
\* accepted and its window recorded; one of MTU+1 bytes with a channel is
\* refused as an MTU drop.
C16_SendRejects ==
    [][\A n \in RadioNodes :
          (/\ radioPc[n] = "send" /\ radioPc'[n] = "done"
           /\ lastSend'.node = n /\ lastSend'.why # "emptyQueue") =>
              LET size == Head(txQueue[n])
                  busy == \E k \in 1..Len(transmittingTimes[n]) :
                              /\ transmittingTimes[n][k][1] <= radioTime[n]
                              /\ radioTime[n] < transmittingTimes[n][k][2]
                  noChannel == lastSend'.why = "noChannel"
              IN  /\ (size > LoraMTU \/ busy \/ noChannel) =>
                         /\ ~lastSend'.ret
                         /\ temporaryReceivedFrames' = temporaryReceivedFrames
                         /\ transmittingTimes' = transmittingTimes
                  /\ (size = LoraMTU /\ ~busy /\ ~noChannel) =>
                         /\ lastSend'.ret
                         /\ Len(transmittingTimes'[n]) > Len(transmittingTimes[n])
                         /\ transmittingTimes'[n][Len(transmittingTimes'[n])]
                                = <<radioTime[n], radioTime[n] + TimeOnAir(size)>>
                  /\ (size = LoraMTU + 1 /\ ~noChannel) => lastSend'.why = "mtuDrop"]_vars

\* C16 witness: a frame of MTU+1 bytes has just been refused as an MTU drop
\* while a frame of exactly MTU bytes, accepted earlier, is pending at a radio
C16_Witness ==
    /\ lastSend.why = "mtuDrop"
    /\ \E d \in RadioNodes : \E k \in 1..Len(temporaryReceivedFrames[d]) :
          temporaryReceivedFrames[d][k].size = LoraMTU

(***************************************************************************)
(* Properties of the frame ids                                             *)
(***************************************************************************)

\* C17: frame ids are unique and increase in creation order, also when the
\* frames are made by different threads of the pool: of any two ids given,
\* the one given later is the greater.
C17_FrameIdsIncrease ==
    \A i, j \in 1..Len(createdIds) : i < j => createdIds[i] < createdIds[j]

(***************************************************************************)
(* Properties of the MAC models                                            *)
(***************************************************************************)

\* the Execute just taken handed a unit to send_Packet and was answered false
SendFailed(peer) == peer.tx.kind # "none" /\ ~peer.tx.ok

\* C18: a MAC peer whose send attempt fails remains in the state it was in.
\* The Executes looked at are those that begin in a state in which nothing
\* received and no timeout moves the peer: the IoT device waiting for a
\* beacon or in its backoff (a beacon taken in the same Execute leads to the
\* attempt, so a device that began waiting for a beacon must end there),
\* the ground station in any state, the downlink satellite while serving.
C18_FailedSendKeepsState ==
    [][/\ (macPeer = "iot" /\ iot.state \in {2, 4} /\ SendFailed(iot'))
            => iot'.state = iot.state
       /\ (macPeer = "gs" /\ SendFailed(gs')) => gs'.state = gs.state
       /\ (macPeer = "ttnc" /\ ttnc.state = 3 /\ SendFailed(ttnc'))
            => ttnc'.state = ttnc.state]_vars

\* an Execute of the IoT device that begins in state 6 (waiting for the ack)
IotAwaitsAck == macPeer = "iot" /\ iot.state = 6 /\ macNow' # macNow

\* the Execute received an ack with the id of the data unit in flight
IotAcked == iot.data \in iot'.rx.acks

\* the retransmit timeout has elapsed at the beginning of the Execute
IotLate == iot.transmitTime + RetransmitInterval <= macNow

\* the device is idle again: it ends the Execute in state 1, or it has gone
\* on from there with the next data unit of the generator
IotBackToIdle ==
    \/ iot'.state = 1 /\ iot'.seq = iot.seq
    \/ iot'.seq = iot.seq + 1 /\ iot'.data = iot.seq

\* C19 as stated: waiting for an ack, the device returns to idle on an ack
\* with the id of the data unit in flight, and when the timeout has elapsed
\* without such an ack it retransmits: it hands that same data unit to the
\* radio.
C19_RetransmitsOnTimeout ==
    [][IotAwaitsAck =>
          /\ IotAcked => IotBackToIdle
          /\ (~IotAcked /\ IotLate) =>
                 iot'.tx.kind = "data" /\ iot'.tx.ids = {iot.data}]_vars

\* C19 amended: waiting for an ack, the device returns to idle on an ack
\* with the id of the data unit in flight; when the timeout has elapsed
\* without such an ack it keeps the data unit and goes back to waiting for a
\* beacon, and it hands the unit to the radio again only once it has a
\* beacon and its new backoff is over; before the timeout it stays as it is.
\* From then until an ack the data unit stays the same and is the only one
\* handed to the radio.
C19_TimeoutAwaitsBeacon ==
    /\ [][IotAwaitsAck =>
            /\ IotAcked => IotBackToIdle
            /\ (~IotAcked /\ IotLate) =>
                  /\ iot'.data = iot.data /\ iot'.seq = iot.seq
                  /\ iot'.state \in {2, 4, 6}
                  /\ iot'.state # 2 => iot'.rx.beacon
                  /\ iot'.tx.kind = "data" =>
                        /\ iot'.tx.ids = {iot.data}
                        /\ iot'.rx.beacon /\ iot'.transmitTime <= macNow
                  /\ iot'.state = 6 <=> (iot'.tx.kind = "data" /\ iot'.tx.ok)
            /\ (~IotAcked /\ ~IotLate) =>
                  /\ iot'.state = 6 /\ iot'.data = iot.data /\ iot'.tx = NoTx]_vars
    /\ [][(macPeer = "iot" /\ iot.state \in {2, 4}) =>
            /\ iot'.data = iot.data
            /\ iot'.tx.kind = "data" => iot'.tx.ids = {iot.data}]_vars

\* C19 witness: the radio has accepted the same data unit a second time (a
\* retransmission after a timeout), and the device waits for the ack again
C19_Witness ==
    /\ macPeer = "iot"
    /\ iot.state = 6 /\ iot.sends = 2
    /\ iot.tx.kind = "data" /\ iot.tx.ok

\* C20: ground station in the receive state (3). In an Execute that receives
\* a control packet from the satellite it is listening to, and in one that
\* finds that more than the timeout has passed since the last data unit, it
\* hands a bulk-ack with the ids accumulated so far (those of this Execute
\* included) to the radio and goes to state 1, listening for beacons.
C20_BulkAckAndListen ==
    [][(macPeer = "gs" /\ gs.state = 3 /\ macNow' # macNow) =>
          LET control == gs.listening \in gs'.rx.controls
              last == IF gs'.rx.data # {} THEN macNow ELSE gs.last
              silent == macNow - last > GsTimeout
          IN  (control \/ silent) =>
                  /\ gs'.tx.kind = "bulkack"
                  /\ gs'.tx.ids = gs.received \cup gs'.rx.data
                  /\ gs'.state = 1]_vars

\* the ids in a sequence of data units
IdsOf(units) == {units[k] : k \in 1..Len(units)}

\* an Execute of the downlink satellite that begins in state 2
TtncListens == macPeer = "ttnc" /\ ttnc.state = 2 /\ macNow' # macNow

\* the units the satellite holds after the Execute, those it has just sent
\* first
TtncServiceOrder ==
    IF ttnc'.tx.kind = "data" /\ ttnc'.tx.ok THEN ttnc'.sent \o ttnc'.toSend
    ELSE ttnc'.toSend

Symmetric(index) ==
    \A n \in FovNodes : \A k \in 1..Len(index[n]) :
        LET row == index[n][k]
            peer == index[row[3]]
        IN  \E j \in 1..Len(peer) :
               peer[j][1] = row[1] /\ peer[j][2] = row[2] /\ peer[j][3] = n

\* C22: after the FOV precompute, for every row (s, e, p, k) in node n's
\* sequence of the installed index there is a row with the same s and e and
\* with peer n in node p's sequence.
C22_RowsAreSymmetric ==
    fovDriver.pc = "done" => Symmetric(nodeToTimes)

\* C22 witness: the precompute has installed an index that was put together
\* from the partial indexes of two workers, and a ground node has rows
C22_Witness ==
    /\ fovDriver.pc = "done"
    /\ Len(fovDriver.processDicts) = 2
    /\ \E g \in FovGrounds : Len(nodeToTimes[g]) >= 2

\* the rows are in the order of their start times
SortedByStart(rows) ==
    \A j, k \in 1..Len(rows) : j < k => rows[j][1] <= rows[k][1]

\* C23: after compute_FOVs has merged the workers' partial indexes, every
\* node's sequence in the installed FOV index is sorted by start_time, for any
\* number of worker processes and any assignment of satellites to workers.
C23_MergedIndexSorted ==
    fovDriver.pc = "done" => \A n \in FovNodes : SortedByStart(nodeToTimes[n])

\* the times and the type filters of a visibility query
QueryTimes == 0..(MaxPassTime + 1)
QueryTypes == SUBSET NodeTypes

WorkerFailed == \E w \in 1..FovWorkers : fovWorker[w].pc = "exit1"

WithoutDuplicates(index) ==
    [n \in FovNodes |->
        LET rows == index[n]
            RECURSIVE Firsts(_)
            Firsts(k) ==
                IF k = 0 THEN <<>>
                ELSE IF \E j \in 1..(k - 1) : rows[j] = rows[k]
                     THEN Firsts(k - 1)
                     ELSE Append(Firsts(k - 1), rows[k])
        IN  Firsts(Len(rows))]

\* C26: duplicate rows are tolerated by the query filter. When racing writers
\* have inserted the same pass of a node pair more than once into the FOV
\* index, a visibility query returns the same result as it does on the index
\* without the duplicate rows.
C26_DuplicatesTolerated ==
    [][\A n \in FovNodes :
          (finder[n].pc = "mark" /\ finder'[n].pc = "done") =>
              finder'[n].view = get_View(WithoutDuplicates(nodeToTimes), n,
                                         finder[n].at, TargetTypes(n))]_vars

\* a create_Node step: _add_Models has been called for one more node
AddModelsCalled == Len(nodeModels') = Len(nodeModels) + 1

\* every slot of every model of the list is filled by another model of the list
FilledByOthers(list) ==
    \A k \in 1..Len(list) :
        LET slots == dependencyModelClasses(list[k])
        IN  \A s \in 1..Len(slots) :
               \E j \in 1..Len(list) : j # k /\ list[j] \in slots[s]

\* C27: AddModels succeeds for a node only if, for every model of the node and
\* every inner slot of that model's dependency list, some other model of the
\* same node has an iname listed in the slot; otherwise it fails and adds no
\* model to the node.
C27_DependenciesGate ==
    [][AddModelsCalled =>
          /\ ~lastAdd'.raised => FilledByOthers(lastAdd'.details)
          /\ ~lastAdd'.raised => FilledByOthers(Last(nodeModels'))
          /\ lastAdd'.raised => Last(nodeModels') = <<>>]_vars

\* C27 witness: a node was given a model with three slots, each filled
C27_Witness ==
    /\ nodeModels # <<>>
    /\ ~lastAdd.raised
    /\ \E k \in 1..Len(Last(nodeModels)) : Last(nodeModels)[k] = "ModelEdgeCompute"

\* C28: AddModels rejects duplicates by iname. After the Orchestrator
\* finishes, no node holds two models with the same iname, whatever model list
\* the configuration gives for the node.
C28_NoDuplicateModels ==
    \A n \in 1..Len(nodeModels) :
        \A j, k \in 1..Len(nodeModels[n]) :
            j # k => nodeModels[n][j] # nodeModels[n][k]

\* C28 witness: a node whose configuration names a model twice has got its
\* models
C28_Witness ==
    /\ nodeModels # <<>>
    /\ ~lastAdd.raised
    /\ Last(nodeModels) # <<>>
    /\ \E j, k \in 1..Len(lastAdd.details) :
          j # k /\ lastAdd.details[j] = lastAdd.details[k]

\* C29: caching resolved model-sets never changes the outcome. For any
\* sequence of AddModels calls, each call accepts or rejects a node's model
\* list exactly as it would if the dependency check were run in full with an
\* empty cache.
C29_CacheKeepsOutcome ==
    [][AddModelsCalled =>
          LET full == add_Models(lastAdd'.nodeClass, lastAdd'.details, <<>>)
          IN  /\ lastAdd'.raised = full.raised
              /\ Last(nodeModels') = full.models]_vars

\* C29 witness: the second node's models were accepted on a cache hit, the
\* set having been resolved for the first node
C29_Witness ==
    /\ Len(nodeModels) = 2
    /\ ~lastAdd.raised
    /\ Len(dependencyResolvedSets) = 1
    /\ {nodeModels[2][k] : k \in 1..Len(nodeModels[2])} = dependencyResolvedSets[1]
    /\ {nodeModels[1][k] : k \in 1..Len(nodeModels[1])} = dependencyResolvedSets[1]

\* C30: power denial. On a node whose energy bank holds min + eps and whose
\* TXRADIO consumption for one transmission exceeds eps, the first send
\* returns false, and the power model's summary line for that step records
\* TXRADIO as requested and not granted.
C30_PowerDenial ==
    txFirst.short =>
        /\ ~txFirst.sent
        /\ lastLine.step = txFirst.step /\ powerPc.step > txFirst.step =>
              lastLine.requested /\ lastLine.granted = "False"

\* C31: starting from a charge of at least min, a consumption request that
\* would take the energy bank below min fails, returns false and leaves the
\* current charge unchanged, so the charge never falls below min after any
\* sequence of consume operations and steps.
C31_ChargeNeverBelowMin ==
    /\ bank.currentCharge >= MinCharge
    /\ lastConsume.energy # None /\ lastConsume.before - lastConsume.energy < MinCharge =>
          ~lastConsume.ret /\ lastConsume.after = lastConsume.before

\* C31 witness: after a first step, a request the bank could not pay has
\* been refused with the charge above the minimum left as it was
C31_Witness ==
    /\ powerPc.step >= 1
    /\ lastConsume.energy # None
    /\ lastConsume.before > MinCharge
    /\ lastConsume.before - lastConsume.energy < MinCharge
    /\ ~lastConsume.ret
    /\ bank.currentCharge = lastConsume.before

\* C32: the value returned by get_node_info for info type time or position
\* is a copy: mutating the returned object does not change the node's
\* timestamp or its stored position.
C32_ReturnedInfoIsCopy ==
    [][infoOp' = "mutate" =>
          /\ heap'[infoNode.timestamp] = heap[infoNode.timestamp]
          /\ heap'[infoNode.position] = heap[infoNode.position]]_vars

\* the step in which a Runtime API call with an unknown API name, a missing
\* required argument or a stale pause step returns
RejectedCallReturns ==
    \/ apiPc = "pause" /\ apiPc' = "idle" /\ apiArg < apiCur
    \/ apiPc = "idle" /\ apiPc' = "idle" /\ apiCalls' # apiCalls

\* C33: a Runtime API call with an unknown API name, a missing required
\* argument or a stale pause step returns null to the caller instead of
\* raising, and leaves the step counter, the armed pause step and both
\* pause/resume events unchanged.
C33_RejectedCallReturnsNull ==
    [][RejectedCallReturns =>
          /\ apiRet' = "null"
          /\ UNCHANGED <<currentStep, timeStepToStop, stoppingCondition,
                         resumingCondition>>]_vars

\* C33 witness: with a pause armed and the run past its first step, the
\* latest call came back with null
C33_Witness ==
    /\ apiPc = "idle"
    /\ apiRet = "null"
    /\ timeStepToStop # None
    /\ currentStep >= 1
    /\ apiCalls = Len(pauseLog) + 1

\* C34: whenever pause_at_time(step) returns a non-null token, the run later
\* blocks at that step before executing it, also when the call is made from
\* another thread while the driver is executing or finishing that very step.
\* Stated for a run with one Runtime API call, a pause_AtTime for a step of
\* the run that returned the token: no node starts that step, and the step
\* counter does not pass it, unless the gate has fired for it.
C34_TokenMeansBlock ==
    (apiCalls = 1 /\ apiPc = "idle" /\ Len(pauseLog) = 1 /\ Last(pauseLog) < NumOfSteps) =>
        /\ (\E n \in Nodes : started[n] > Last(pauseLog)) => firedStep = Last(pauseLog)
        /\ currentStep > Last(pauseLog) => firedStep = Last(pauseLog)

\* C35: a resume() issued while the run is not paused has no lasting effect:
\* the next armed pause still blocks the run until a resume() that is issued
\* after that pause has fired. When the run leaves the wait of the gate of a
\* step, a resume() has completed while the run was blocked at that step.
C35_EarlyResumeHasNoEffect ==
    (pc = "clear" /\ firedStep = currentStep) => resumedAt = currentStep

\* C36: a caller blocked on the wait-token returned by pause_at_time is
\* always eventually released, whether the pause fires, the run finishes
\* normally without reaching the step, or the run aborts because a node's
\* Execute raised. The token is the stopping event: once a call has returned
\* it, a caller that finds it clear sees it set later.
C36_TokenEventuallySet ==
    (Len(pauseLog) > 0 /\ apiPc = "idle" /\ ~stoppingCondition) ~> stoppingCondition

\* C37: compute_FOVs merges the partial index of every worker process that
\* produced one: no worker's result is lost, whatever the moment at which
\* the worker puts its result and exits relative to the driver's liveness
\* check and queue-draining loop.
C37_NoWorkerResultLost ==
    fovDriver.pc \in {"merge", "done"} =>
        /\ fovQueue = <<>>
        /\ \A w \in 1..FovWorkers :
              (fovWorker[w].pc = "exited" /\ fovWorker[w].last # -1) =>
                  \E k \in 1..Len(fovDriver.processDicts) :
                      fovDriver.processDicts[k] = fovWorker[w].index

\* C38: a packet taken from a radio model's transmit queue by a send is
\* either transmitted successfully or still in the queue when the call
\* returns; it is never discarded because no channel exists, the destination
\* is not found, or the radio device rejects the send.
C38_PacketSentOrKept ==
    [][\A n \in RadioNodes :
          (/\ radioPc[n] = "send" /\ radioPc'[n] = "done"
           /\ lastSend'.node = n /\ txQueue[n] # <<>>
           /\ lastSend'.why # "emptyQueue") =>
              \/ lastSend'.ret
              \/ txQueue'[n] = txQueue[n]]_vars

\* C39: a downlink satellite that has entered the serving state always
\* eventually returns to beacon-wait and sends beacons again, even if the
\* ground station it is serving becomes permanently unreachable while data
\* units are still waiting to be sent. In a run that ends: a satellite that
\* is serving when a full beacon period and a step of the run are still to
\* come is back in beacon-wait before the run is over, unless one of its
\* sends gets through again.
C39_ServingReturnsToBeaconWait ==
    (/\ ttnc.state = 3
     /\ ttnc.toSend # <<>>
     /\ macNow + BeaconInterval + BeaconBackoff + DeltaTime <= MacEndTime)
        ~> (ttnc.state = 1 \/ ttnc.tx.ok)
====
